---- MODULE Spec2Model ----
(***************************************************************************)
(* Model of the Clay Lua binding (clay_lua_bindings.c): the fluent element *)
(* and text builders, the table reader, the payload pointers carried       *)
(* through render commands, and the open/configure/close calls the binding *)
(* makes on the layout engine.  The engine itself (clay.h) and the Lua     *)
(* auxiliary library are outside the binding; they appear here only as the *)
(* open-element stack, the log of calls received, and the registry.        *)
(***************************************************************************)
EXTENDS Integers, Sequences, FiniteSets, TLC

VARIABLES
    stack,      \* engine: open-element stack (element instance numbers)
    calls,      \* engine: the calls received, in order
    nextElem,   \* engine: number of the next element instance
    elemDecl,   \* engine: declaration attached to each element instance
    underflow,  \* engine: a close arrived while no element was open
    registry,   \* Lua registry slots 0..MaxRef (slot 0 is the free list head)
    builders,   \* LuaClayElementBuilder userdata objects
    texts,      \* LuaClayTextBuilder userdata objects
    cmds,       \* Clay_RenderCommandArray of the frame
    iter,       \* Clay_IteratorState of the closure made by endLayoutIter
    engine,     \* engine: element ids, tree, scroll containers, culling, context
    host,       \* the binding's globals and the C heap blocks it holds
    hist,       \* history: what each element builder was told and where it opened
    thist,      \* history: what each text builder was told and what it emitted
    said,       \* history: the payload values the script gave each element
    reads,      \* history: accessor calls made on each render command
    last,       \* history: the handler that ran last and how it ended
    ghost       \* history: commands yielded, ids handed out, the frames declared

vars == <<stack, calls, nextElem, elemDecl, underflow, registry, builders,
          texts, cmds, iter, engine, host, hist, thist, said, reads, last, ghost>>

----------------------------------------------------------------------------
(* Bounds of the model *)

MaxCalls == 6
MaxFnLen == 2
MaxReads == 2
MaxFrameCalls == 2
MaxScript == 3
MaxBlocks == 3

----------------------------------------------------------------------------
(* Lua values *)

LuaNil == [t |-> "nil", v |-> 0]
LuaLight(p) == [t |-> "lightuserdata", v |-> p]
LuaTable(k) == [t |-> "table", v |-> k]
LuaNumber(n) == [t |-> "number", v |-> n]
LuaBoolean(b) == [t |-> "boolean", v |-> IF b THEN 1 ELSE 0]
LuaFunction(f) == [t |-> "function", v |-> f]
LuaCommand(c) == [t |-> "userdata", v |-> c]

\* A handler that returns no value.
NoValue == [t |-> "none", v |-> 0]

lua_isnil(x) == x.t = "nil"
lua_islightuserdata(x) == x.t = "lightuserdata"
lua_touserdata(x) == IF x.t = "lightuserdata" THEN x.v ELSE 0
lua_istable(x) == x.t = "table"

\* Addresses a host may hand over as lightuserdata: NULL, an odd one, an even one.
LightPointers == {0, 3, 4}

\* The values a script passes as a payload.
PayloadValues == {LuaNil, LuaTable(1), LuaTable(2)} \cup {LuaLight(p) : p \in LightPointers}

----------------------------------------------------------------------------
(* Tagged registry references stored in void* fields *)

clay_is_ref_tag(p) == p % 2 = 1
clay_ref_from_tag(p) == p \div 2
clay_tag_from_ref(ref) == ref * 2 + 1

----------------------------------------------------------------------------
(* The Lua registry as luaL_ref / luaL_unref use it (Lua 5.1 / LuaJIT):     *)
(* slot 0 holds the head of the free list, a freed slot holds the next      *)
(* free slot.                                                               *)

MaxRef == 3

\* The longest text the engine measures.
MaxTextLen == 4

RefSlots == 0..MaxRef

EmptyRegistry == [i \in RefSlots |-> LuaNil]

lua_rawgeti(reg, i) == IF i \in RefSlots THEN reg[i] ELSE LuaNil

lua_tointeger(x) == IF x.t = "number" THEN x.v ELSE 0

\* lua_objlen of the registry: a border of its array part.
lua_objlen(reg) ==
    IF reg[1] = LuaNil THEN 0
    ELSE CHOOSE n \in 1..MaxRef :
            /\ \A j \in 1..n : reg[j] # LuaNil
            /\ (n = MaxRef \/ reg[n + 1] = LuaNil)

\* The reference luaL_ref hands out for the next value.
luaL_ref_index(reg) ==
    LET free == lua_tointeger(reg[0])
    IN IF free # 0 THEN free ELSE lua_objlen(reg) + 1

luaL_ref(reg, x) ==
    LET free == lua_tointeger(reg[0])
        ref == luaL_ref_index(reg)
        unlinked == IF free # 0 THEN [reg EXCEPT ![0] = lua_rawgeti(reg, free)] ELSE reg
    IN IF ref \in 1..MaxRef THEN [unlinked EXCEPT ![ref] = x] ELSE unlinked

luaL_unref(reg, ref) ==
    IF ref \in 1..MaxRef
    THEN [reg EXCEPT ![ref] = reg[0], ![0] = LuaNumber(ref)]
    ELSE reg

\* A further luaL_ref stays inside the modelled slots.
RefAvailable(reg) == luaL_ref_index(reg) \in 1..MaxRef

----------------------------------------------------------------------------
(* Element declarations (the fields of Clay_ElementDeclaration the model    *)
(* follows) and the calls the engine receives                               *)

\* (float) of a Lua number: integers up to 2^24 are kept, the odd ones above
\* it (up to 2^25) go to the neighbour with an even mantissa.
ToFloat(n) ==
    LET a == IF n < 0 THEN -n ELSE n
        m == a \div 2
        r == IF a <= 16777216 \/ a % 2 = 0 THEN a
             ELSE IF m % 2 = 0 THEN 2 * m ELSE 2 * m + 2
    IN IF n < 0 THEN -r ELSE r

\* Clay_Vector2
Vector2(x, y) == [x |-> x, y |-> y]

\* Clay_ClipElementConfig of a zeroed declaration.
NoClip == [horizontal |-> FALSE, vertical |-> FALSE, childOffset |-> Vector2(0, 0)]

\* Clay__SizingType
CLAY__SIZING_TYPE_FIT == 0
CLAY__SIZING_TYPE_GROW == 1
CLAY__SIZING_TYPE_PERCENT == 2
CLAY__SIZING_TYPE_FIXED == 3

\* Clay_SizingAxis of a zeroed declaration.  size is a union in the engine:
\* size.percent occupies the storage of size.minMax.min.
NoAxis == [type |-> CLAY__SIZING_TYPE_FIT, size |-> [min |-> 0, max |-> 0]]
NoSizing == [width |-> NoAxis, height |-> NoAxis]

\* axis.size.percent
SizePercent(axis) == axis.size.min

DefaultDecl == [bg |-> FALSE, border |-> FALSE,
                imageData |-> 0, customData |-> 0, userData |-> 0,
                clip |-> NoClip, sizing |-> NoSizing]

ElementIds == {1, 2}

\* Clay_ElementId; stringId is the label as a sequence of bytes.
ElementId(id, offset, baseId, stringId) ==
    [id |-> id, offset |-> offset, baseId |-> baseId, stringId |-> stringId]

\* (Clay_ElementId){0}
NoElementId == ElementId(0, 0, 0, <<>>)

\* The id table a script builds around a numeric id alone, as
\* clay_check_element_id reads it.
PlainId(id) == ElementId(id, 0, 0, <<>>)

OpenCall(id) == [op |-> "open", id |-> id, decl |-> DefaultDecl]
ConfigureCall(d) == [op |-> "configure", id |-> 0, decl |-> d]
CloseCall == [op |-> "close", id |-> 0, decl |-> DefaultDecl]

\* Clay_TextElementConfig: the fields the model follows, with the defaults of
\* l_Clay_TextBuilder_New and l_Clay_CreateTextElement.
DefaultTextCfg == [fontSize |-> 16, userData |-> 0]
TextCall(cfg) == [op |-> "text", id |-> 0, decl |-> DefaultDecl, cfg |-> cfg]

\* What the engine keeps beside the open-element stack: the id and the parent
\* of each element instance of the frame, the persistent scroll containers,
\* the culling switch and the current context.
NoEngine == [elemId |-> <<>>, parent |-> <<>>, scroll |-> <<>>,
             culling |-> FALSE, context |-> 0, element |-> <<>>]

LUA_NOREF == -2

\* g_ClayArenaMem / g_ClayArenaCap, clay__last_id, g_MeasureTextRef, and the
\* blocks malloc handed out that were not freed.
NoHost == [arenaMem |-> 0, arenaCap |-> 0, heap |-> {}, last_id |-> NoElementId,
           measureRef |-> LUA_NOREF]

\* The state the handlers act on, as one record.
World == [stack |-> stack, calls |-> calls, nextElem |-> nextElem,
          elemDecl |-> elemDecl, underflow |-> underflow,
          registry |-> registry, builders |-> builders, texts |-> texts,
          cmds |-> cmds, iter |-> iter, engine |-> engine, host |-> host]

Clay__OpenElementWithId(w, eid) ==
    [w EXCEPT !.stack = Append(w.stack, w.nextElem),
              !.calls = Append(w.calls, OpenCall(eid.id)),
              !.elemDecl = Append(w.elemDecl, DefaultDecl),
              !.nextElem = w.nextElem + 1,
              !.engine.elemId = Append(@, eid.id),
              !.engine.element = Append(@, eid),
              !.engine.parent = Append(@, IF w.stack = <<>> THEN 0
                                          ELSE w.stack[Len(w.stack)])]

\* The id of the element on top of the open-element stack (0: none is open).
OpenElementId(w) ==
    IF w.stack = <<>> THEN 0 ELSE w.engine.elemId[w.stack[Len(w.stack)]]

\* The index of the scroll container kept for element id (0: none).
ScrollIndex(scroll, id) ==
    IF \E i \in 1..Len(scroll) : scroll[i].elementId = id
    THEN CHOOSE i \in 1..Len(scroll) :
            /\ scroll[i].elementId = id
            /\ \A j \in 1..(i - 1) : scroll[j].elementId # id
    ELSE 0

NewScrollContainer(id) ==
    [elementId |-> id, scrollPosition |-> Vector2(0, 0), openThisFrame |-> TRUE,
     contentHeight |-> 0, containerHeight |-> 0]

\* Declaring a clipping element creates its scroll container, or marks the
\* one kept from earlier frames as seen in this frame.
DeclareScrollContainer(scroll, id, d) ==
    IF ~(d.clip.horizontal \/ d.clip.vertical) \/ id = 0 THEN scroll
    ELSE IF ScrollIndex(scroll, id) = 0 THEN Append(scroll, NewScrollContainer(id))
    ELSE [scroll EXCEPT ![ScrollIndex(scroll, id)].openThisFrame = TRUE]

\* The scroll position kept for the element that is open now.
Clay_GetScrollOffset(w) ==
    LET i == ScrollIndex(w.engine.scroll, OpenElementId(w))
    IN IF i = 0 THEN Vector2(0, 0) ELSE w.engine.scroll[i].scrollPosition

Clay__ConfigureOpenElement(w, d) ==
    [w EXCEPT !.calls = Append(w.calls, ConfigureCall(d)),
              !.elemDecl = IF w.stack = <<>> THEN w.elemDecl
                           ELSE [w.elemDecl EXCEPT ![w.stack[Len(w.stack)]] = d],
              !.engine.scroll = DeclareScrollContainer(@, OpenElementId(w), d)]

Clay__CloseElement(w) ==
    [w EXCEPT !.calls = Append(w.calls, CloseCall),
              !.stack = IF w.stack = <<>> THEN <<>>
                        ELSE SubSeq(w.stack, 1, Len(w.stack) - 1),
              !.underflow = w.underflow \/ w.stack = <<>>]

Clay__OpenTextElement(w, cfg) ==
    [w EXCEPT !.calls = Append(w.calls, TextCall(cfg))]

\* What a handler hands back: the new state, whether it raised a Lua error,
\* and the value it returned to the script.
Return(w, x) == [w |-> w, err |-> FALSE, ret |-> x]
Ok(w) == Return(w, NoValue)
Raise(w) == [w |-> w, err |-> TRUE, ret |-> NoValue]

----------------------------------------------------------------------------
(* LuaClayElementBuilder *)

NoBuilder == [state |-> "none", active |-> FALSE, configured |-> FALSE,
              clipOffsetExplicit |-> FALSE, decl |-> DefaultDecl]

\* The builder userdata objects a script holds at once.
BuilderIds == {1, 2}

\* clay_set_ptr_from_lua: the new pointer and the registry after it.
clay_unref_tagged(reg, p) ==
    IF p # 0 /\ clay_is_ref_tag(p)
    THEN [reg |-> luaL_unref(reg, clay_ref_from_tag(p)), p |-> 0]
    ELSE [reg |-> reg, p |-> p]

clay_set_ptr_from_lua(reg, x, p) ==
    LET u == clay_unref_tagged(reg, p)
    IN IF lua_isnil(x) THEN [reg |-> u.reg, p |-> 0]
       ELSE IF lua_islightuserdata(x) THEN [reg |-> u.reg, p |-> lua_touserdata(x)]
       ELSE [reg |-> luaL_ref(u.reg, x), p |-> clay_tag_from_ref(luaL_ref_index(u.reg))]

elem_builder_ensure_open(w, b) == w.builders[b].active

elem_builder_detach_ptrs(d) ==
    [d EXCEPT !.userData = 0, !.imageData = 0, !.customData = 0]

\* The builder's declaration with the default clip offset filled in.
elem_builder_default_clip(w, b) ==
    LET d == w.builders[b].decl
    IN IF (d.clip.horizontal \/ d.clip.vertical) /\ ~w.builders[b].clipOffsetExplicit
       THEN [d EXCEPT !.clip.childOffset = Clay_GetScrollOffset(w)]
       ELSE d

elem_builder_configure_unflagged(w, b) ==
    IF w.builders[b].configured THEN w
    ELSE LET d == elem_builder_default_clip(w, b)
             w1 == Clay__ConfigureOpenElement(w, d)
         IN [w1 EXCEPT !.builders[b].decl = elem_builder_detach_ptrs(d)]

elem_builder_configure_no_scroll(w, b) ==
    IF w.builders[b].configured THEN w
    ELSE LET w1 == Clay__ConfigureOpenElement(w, w.builders[b].decl)
         IN [w1 EXCEPT !.builders[b].configured = TRUE,
                       !.builders[b].decl = elem_builder_detach_ptrs(@)]

elem_builder_configure_if_needed(w, b) ==
    IF w.builders[b].configured THEN w
    ELSE LET d == elem_builder_default_clip(w, b)
             w1 == Clay__ConfigureOpenElement(w, d)
         IN [w1 EXCEPT !.builders[b].configured = TRUE,
                       !.builders[b].decl = elem_builder_detach_ptrs(d)]

\* The engine's identifier hash: an accumulation over the bytes of the label
\* that starts from the seed, then folded with the index.  HashModulus stands
\* for the 2^32 of the engine's uint32_t.
HashModulus == 65536

RECURSIVE HashBytes(_, _)
HashBytes(key, h) ==
    IF key = <<>> THEN h
    ELSE HashBytes(Tail(key), ((h + Head(key)) * 1025) % HashModulus)

Clay__HashStringWithOffset(key, offset, seed) ==
    ElementId((((HashBytes(key, seed) + offset) * 9) % HashModulus) + 1, offset, seed, key)

Clay__HashString(key, seed) == Clay__HashStringWithOffset(key, 0, seed)

\* The id of the element that is the open parent.
Clay__GetParentElementId(w) == OpenElementId(w)

LuaString(s) == [t |-> "string", v |-> s]
lua_toboolean(x) == ~(x.t = "nil" \/ (x.t = "boolean" /\ x.v = 0))
luaL_optinteger(x, d) == IF lua_isnil(x) THEN d ELSE x.v

\* The id table of a Clay_ElementId: the string of the call when there is
\* one, else the one of the id, else nil.
clay_push_element_id_table(eid, explicit_sid) ==
    LuaTable([id |-> LuaNumber(eid.id), offset |-> LuaNumber(eid.offset),
              baseId |-> LuaNumber(eid.baseId),
              stringId |-> IF explicit_sid # <<>> THEN LuaString(explicit_sid)
                           ELSE IF eid.stringId # <<>> THEN LuaString(eid.stringId)
                           ELSE LuaNil])

\* The Clay_ElementId read back from an id table: id, offset and baseId; the
\* stringId field is fetched and dropped.
clay_check_element_id(x) ==
    IF ~lua_istable(x) THEN [err |-> TRUE, eid |-> NoElementId]
    ELSE [err |-> FALSE,
          eid |-> ElementId(x.v.id.v, luaL_optinteger(x.v.offset, 0),
                            luaL_optinteger(x.v.baseId, 0), <<>>)]

\* The hash of a label, as l_Clay_Id and clay_element_id_from_args take it.
HashLabel(w, s, index, isLocal) ==
    LET seed == IF lua_toboolean(isLocal) THEN Clay__GetParentElementId(w) ELSE 0
    IN IF luaL_optinteger(index, 0) > 0
       THEN Clay__HashStringWithOffset(s, luaL_optinteger(index, 0), seed)
       ELSE Clay__HashString(s, seed)

clay_element_id_from_args(w, arg1, index, isLocal) ==
    IF lua_istable(arg1)
    THEN [w |-> w, err |-> clay_check_element_id(arg1).err,
          eid |-> clay_check_element_id(arg1).eid]
    ELSE IF arg1.t = "string"
    THEN LET eid == HashLabel(w, arg1.v, index, isLocal)
         IN [w |-> [w EXCEPT !.host.last_id = eid], err |-> FALSE, eid |-> eid]
    ELSE [w |-> w, err |-> TRUE, eid |-> NoElementId]

l_Clay_Id_local(w, s, index, isLocal) ==
    LET eid == HashLabel(w, s.v, index, LuaBoolean(TRUE))
    IN Return([w EXCEPT !.host.last_id = eid], clay_push_element_id_table(eid, s.v))

l_Clay_Id(w, s, index, isLocal) ==
    LET eid == HashLabel(w, s.v, index, isLocal)
    IN Return([w EXCEPT !.host.last_id = eid], clay_push_element_id_table(eid, s.v))

l_Clay_ElementBuilder_New(w, b, arg1, index, isLocal) ==
    LET a == clay_element_id_from_args(w, arg1, index, isLocal)
        w1 == [a.w EXCEPT !.builders[b] =
                   [state |-> "live", active |-> TRUE, configured |-> FALSE,
                    clipOffsetExplicit |-> FALSE, decl |-> DefaultDecl]]
    IN IF a.err THEN Raise(w) ELSE Ok(Clay__OpenElementWithId(w1, a.eid))

\* luaL_checknumber / luaL_checkinteger accept the value.
lua_isnumber(x) == x.t = "number"

set_sizing_axis_keep_max(axis, type, args) ==
    LET n == Len(args)
        a == [axis EXCEPT !.type = type]
    IN IF type = CLAY__SIZING_TYPE_FIXED
       THEN IF n # 1 \/ ~lua_isnumber(args[1]) THEN [axis |-> a, err |-> TRUE]
            ELSE [axis |-> [a EXCEPT !.size.min = ToFloat(args[1].v),
                                     !.size.max = ToFloat(args[1].v)], err |-> FALSE]
       ELSE IF type = CLAY__SIZING_TYPE_PERCENT
       THEN IF n # 1 \/ ~lua_isnumber(args[1]) THEN [axis |-> a, err |-> TRUE]
            ELSE [axis |-> [a EXCEPT !.size.min = ToFloat(args[1].v)], err |-> FALSE]
       ELSE IF n = 0
       THEN [axis |-> [a EXCEPT !.size.min = 0, !.size.max = 0], err |-> FALSE]
       ELSE IF n = 1
       THEN IF ~lua_isnumber(args[1]) THEN [axis |-> a, err |-> TRUE]
            ELSE [axis |-> [a EXCEPT !.size.min = ToFloat(args[1].v)], err |-> FALSE]
       ELSE IF n = 2
       THEN IF ~lua_isnumber(args[1]) THEN [axis |-> a, err |-> TRUE]
            ELSE IF ~lua_isnumber(args[2])
            THEN [axis |-> [a EXCEPT !.size.min = ToFloat(args[1].v)], err |-> TRUE]
            ELSE [axis |-> [a EXCEPT !.size.min = ToFloat(args[1].v),
                                     !.size.max = ToFloat(args[2].v)], err |-> FALSE]
       ELSE [axis |-> a, err |-> TRUE]

\* The axis after the call and whether it raised; the type is stored before
\* the arguments are looked at, and each argument as it is read.
set_sizing_axis(axis, type, args) ==
    LET n == Len(args)
        a == [axis EXCEPT !.type = type]
    IN IF type = CLAY__SIZING_TYPE_FIXED
       THEN IF n # 1 \/ ~lua_isnumber(args[1]) THEN [axis |-> a, err |-> TRUE]
            ELSE [axis |-> [a EXCEPT !.size.min = ToFloat(args[1].v),
                                     !.size.max = ToFloat(args[1].v)], err |-> FALSE]
       ELSE IF type = CLAY__SIZING_TYPE_PERCENT
       THEN IF n # 1 \/ ~lua_isnumber(args[1]) THEN [axis |-> a, err |-> TRUE]
            ELSE [axis |-> [a EXCEPT !.size.min = ToFloat(args[1].v)], err |-> FALSE]
       ELSE IF n = 0
       THEN [axis |-> [a EXCEPT !.size.min = 0, !.size.max = 0], err |-> FALSE]
       ELSE IF n = 1
       THEN IF ~lua_isnumber(args[1]) THEN [axis |-> a, err |-> TRUE]
            ELSE [axis |-> [a EXCEPT !.size.min = ToFloat(args[1].v), !.size.max = 0],
                  err |-> FALSE]
       ELSE IF n = 2
       THEN IF ~lua_isnumber(args[1]) THEN [axis |-> a, err |-> TRUE]
            ELSE IF ~lua_isnumber(args[2])
            THEN [axis |-> [a EXCEPT !.size.min = ToFloat(args[1].v)], err |-> TRUE]
            ELSE [axis |-> [a EXCEPT !.size.min = ToFloat(args[1].v),
                                     !.size.max = ToFloat(args[2].v)], err |-> FALSE]
       ELSE [axis |-> a, err |-> TRUE]

\* t: argument 2; args: the arguments after it.
l_Elem_width(w, b, t, args) ==
    IF ~elem_builder_ensure_open(w, b) \/ ~lua_isnumber(t) THEN Raise(w)
    ELSE LET r == set_sizing_axis(w.builders[b].decl.sizing.width, t.v, args)
             w1 == [w EXCEPT !.builders[b].decl.sizing.width = r.axis]
         IN IF r.err THEN Raise(w1) ELSE Ok(w1)

l_Elem_height(w, b, t, args) ==
    IF ~elem_builder_ensure_open(w, b) \/ ~lua_isnumber(t) THEN Raise(w)
    ELSE LET r == set_sizing_axis(w.builders[b].decl.sizing.height, t.v, args)
             w1 == [w EXCEPT !.builders[b].decl.sizing.height = r.axis]
         IN IF r.err THEN Raise(w1) ELSE Ok(w1)

l_Elem_backgroundColor(w, b, a) ==
    IF ~elem_builder_ensure_open(w, b) THEN Raise(w)
    ELSE Ok([w EXCEPT !.builders[b].decl.bg = a])

l_Elem_borderWidth(w, b, wd) ==
    IF ~elem_builder_ensure_open(w, b) THEN Raise(w)
    ELSE Ok([w EXCEPT !.builders[b].decl.border = wd])

\* :clip(v) sets both axes, :clip(horizontal, vertical) each of them.
l_Elem_clip(w, b, n, h, v) ==
    IF ~elem_builder_ensure_open(w, b) THEN Raise(w)
    ELSE IF n = 1
         THEN Ok([w EXCEPT !.builders[b].decl.clip.horizontal = h,
                           !.builders[b].decl.clip.vertical = h])
         ELSE Ok([w EXCEPT !.builders[b].decl.clip.horizontal = h,
                           !.builders[b].decl.clip.vertical = v])

l_Elem_childOffset(w, b, x, y) ==
    IF ~elem_builder_ensure_open(w, b) THEN Raise(w)
    ELSE Ok([w EXCEPT !.builders[b].decl.clip.childOffset = Vector2(ToFloat(x), ToFloat(y)),
                      !.builders[b].clipOffsetExplicit = TRUE])

l_Elem_userData(w, b, x) ==
    IF ~elem_builder_ensure_open(w, b) THEN Raise(w)
    ELSE LET r == clay_set_ptr_from_lua(w.registry, x, w.builders[b].decl.userData)
         IN Ok([w EXCEPT !.registry = r.reg, !.builders[b].decl.userData = r.p])

l_Elem_imageData(w, b, x) ==
    IF ~elem_builder_ensure_open(w, b) THEN Raise(w)
    ELSE LET r == clay_set_ptr_from_lua(w.registry, x, w.builders[b].decl.imageData)
         IN Ok([w EXCEPT !.registry = r.reg, !.builders[b].decl.imageData = r.p])

l_Elem_customData(w, b, x) ==
    IF ~elem_builder_ensure_open(w, b) THEN Raise(w)
    ELSE LET r == clay_set_ptr_from_lua(w.registry, x, w.builders[b].decl.customData)
         IN Ok([w EXCEPT !.registry = r.reg, !.builders[b].decl.customData = r.p])

l_Elem_close(w, b) ==
    IF ~elem_builder_ensure_open(w, b) THEN Raise(w)
    ELSE LET w1 == Clay__CloseElement(elem_builder_configure_if_needed(w, b))
         IN Ok([w1 EXCEPT !.builders[b].active = FALSE])

l_Elem_gc_unguarded(w, b) ==
    LET w1 == Clay__CloseElement(elem_builder_configure_if_needed(w, b))
    IN Ok([w1 EXCEPT !.builders[b].active = FALSE, !.builders[b].state = "dead"])

l_Elem_gc(w, b) ==
    IF w.builders[b].active
    THEN LET w1 == Clay__CloseElement(elem_builder_configure_if_needed(w, b))
         IN Ok([w1 EXCEPT !.builders[b].active = FALSE, !.builders[b].state = "dead"])
    ELSE Ok([w EXCEPT !.builders[b].state = "dead"])

\* clay.open / clay.close / clay.createTextElement with default arguments
l_Clay_OpenElement(w, id) ==
    Return(Clay__OpenElementWithId(w, PlainId(id)), LuaBoolean(TRUE))
l_Clay_CloseElement(w) == Ok(Clay__CloseElement(w))
l_Clay_CreateTextElement(w) == Ok(Clay__OpenTextElement(w, DefaultTextCfg))

----------------------------------------------------------------------------
(* The functions a script passes as children: a short list of steps, run    *)
(* under lua_pcall until one raises.                                        *)

FnSteps == {"open", "close", "text", "closeSelf", "error"}
PlainSteps == {"open", "close", "text", "error"}

SeqsUpTo(S, n) == UNION {[1..k -> S] : k \in 0..n}
BuilderFns == SeqsUpTo(FnSteps, MaxFnLen)
PlainFns == SeqsUpTo(PlainSteps, MaxFnLen)

\* The element id the children function declares.
FnChildId == CHOOSE i \in ElementIds : \A j \in ElementIds : j <= i

FnStep(w, b, s) ==
    CASE s = "open" -> l_Clay_OpenElement(w, FnChildId)
      [] s = "close" -> l_Clay_CloseElement(w)
      [] s = "text" -> l_Clay_CreateTextElement(w)
      [] s = "closeSelf" -> l_Elem_close(w, b)
      [] OTHER -> Raise(w)

RECURSIVE lua_pcall(_, _, _)
lua_pcall(w, b, fn) ==
    IF fn = <<>> THEN Ok(w)
    ELSE LET r == FnStep(w, b, Head(fn))
         IN IF r.err THEN r ELSE lua_pcall(r.w, b, Tail(fn))

l_Elem_children(w, b, fn) ==
    IF ~elem_builder_ensure_open(w, b) THEN Raise(w)
    ELSE LET w1 == elem_builder_configure_if_needed(w, b)
             r == lua_pcall(w1, b, fn)
             w2 == Clay__CloseElement(r.w)
             w3 == [w2 EXCEPT !.builders[b].active = FALSE]
         IN IF r.err THEN Raise(w3) ELSE Ok(w3)

----------------------------------------------------------------------------
(* LuaClayTextBuilder *)

NoText == [state |-> "none", active |-> FALSE, cfg |-> DefaultTextCfg]

\* The text builder userdata objects a script holds at once.
TextIds == {1, 2}

FontSizes == {12, 16}

text_builder_emit_keep_active(w, t) ==
    IF ~w.texts[t].active THEN w
    ELSE LET w1 == Clay__OpenTextElement(w, w.texts[t].cfg)
         IN [w1 EXCEPT !.texts[t].cfg.userData = 0]

text_builder_emit(w, t) ==
    IF ~w.texts[t].active THEN w
    ELSE LET w1 == Clay__OpenTextElement(w, w.texts[t].cfg)
         IN [w1 EXCEPT !.texts[t].cfg.userData = 0, !.texts[t].active = FALSE]

l_Text_fontSize(w, t, n) ==
    IF ~w.texts[t].active THEN Raise(w)
    ELSE Ok([w EXCEPT !.texts[t].cfg.fontSize = n])

l_Text_userData(w, t, x) ==
    IF ~w.texts[t].active THEN Raise(w)
    ELSE LET r == clay_set_ptr_from_lua(w.registry, x, w.texts[t].cfg.userData)
         IN Ok([w EXCEPT !.registry = r.reg, !.texts[t].cfg.userData = r.p])

l_Text_close(w, t) ==
    IF ~w.texts[t].active THEN Ok(w) ELSE Ok(text_builder_emit(w, t))

l_Text_done(w, t) == l_Text_close(w, t)

l_Text_gc(w, t) ==
    IF w.texts[t].active
    THEN LET u == clay_unref_tagged(w.registry, w.texts[t].cfg.userData)
         IN Ok([w EXCEPT !.registry = u.reg, !.texts[t].cfg.userData = u.p,
                         !.texts[t].active = FALSE, !.texts[t].state = "dead"])
    ELSE Ok([w EXCEPT !.texts[t].state = "dead"])

\* The config callback of clay.text(str, fn): steps on the builder it is given.
TextFnSteps == {"fontSize", "close", "error"}
TextFns == SeqsUpTo(TextFnSteps, MaxFnLen)

\* The font size the callback sets.
TextFnFontSize == CHOOSE n \in FontSizes : n # DefaultTextCfg.fontSize

TextFnStep(w, t, s) ==
    CASE s = "fontSize" -> l_Text_fontSize(w, t, TextFnFontSize)
      [] s = "close" -> l_Text_close(w, t)
      [] OTHER -> Raise(w)

RECURSIVE lua_pcall_text(_, _, _)
lua_pcall_text(w, t, fn) ==
    IF fn = <<>> THEN Ok(w)
    ELSE LET r == TextFnStep(w, t, Head(fn))
         IN IF r.err THEN r ELSE lua_pcall_text(r.w, t, Tail(fn))

l_Clay_TextBuilder_New(w, t, hasFn, fn) ==
    LET w1 == [w EXCEPT !.texts[t] =
                   [state |-> "live", active |-> TRUE, cfg |-> DefaultTextCfg]]
    IN IF hasFn
       THEN LET r == lua_pcall_text(w1, t, fn)
            IN IF r.err THEN Raise(r.w) ELSE Ok(text_builder_emit(r.w, t))
       ELSE Ok(w1)

----------------------------------------------------------------------------
(* The table reader, clay.configure and clay.createElement *)

\* A config table: the fields the model follows.  backgroundColor and border
\* are present or absent; image.imageData, custom.customData and userData
\* hold a Lua value.
ConfigTable(bg, border, image, custom, ud) ==
    [t |-> "table", bg |-> bg, border |-> border,
     imageData |-> image, customData |-> custom, userData |-> ud, clip |-> LuaNil]

\* The clip field of a config table: { horizontal, vertical, childOffset }
\* with childOffset nil or a table { x, y } of numbers (nil: left out).
OffsetTable(x, y) == [t |-> "table", x |-> x, y |-> y]
ClipTable(h, v, off) == [t |-> "table", horizontal |-> h, vertical |-> v, childOffset |-> off]

luaL_optnumber(x, d) == IF lua_isnil(x) THEN d ELSE x.v

\* The clip section of the reader (w: the engine as it is during the read).
clay_read_clip(w, c) ==
    IF ~lua_istable(c) THEN NoClip
    ELSE [horizontal |-> c.horizontal, vertical |-> c.vertical,
          childOffset |->
              IF lua_istable(c.childOffset)
              THEN Vector2(ToFloat(luaL_optnumber(c.childOffset.x, 0)),
                           ToFloat(luaL_optnumber(c.childOffset.y, 0)))
              ELSE IF c.horizontal \/ c.vertical THEN Clay_GetScrollOffset(w)
              ELSE Vector2(0, 0)]

\* One nested payload field (image.imageData, custom.customData).
clay_read_payload(reg, x) ==
    IF lua_islightuserdata(x) THEN [reg |-> reg, p |-> lua_touserdata(x)]
    ELSE IF ~lua_isnil(x)
         THEN [reg |-> luaL_ref(reg, x), p |-> clay_tag_from_ref(luaL_ref_index(reg))]
         ELSE [reg |-> reg, p |-> 0]

\* The declaration read, the registry after it, and the change of the Lua
\* stack height over the whole call.
clay_read_element_declaration(w, cfg) ==
    LET image == clay_read_payload(w.registry, cfg.imageData)
        custom == clay_read_payload(image.reg, cfg.customData)
        light == lua_islightuserdata(cfg.userData)
    IN [reg |-> custom.reg,
        decl |-> [bg |-> cfg.bg, border |-> cfg.border,
                  imageData |-> image.p, customData |-> custom.p,
                  userData |-> IF light THEN lua_touserdata(cfg.userData) ELSE 0,
                  clip |-> clay_read_clip(w, cfg.clip), sizing |-> NoSizing],
        top |-> IF light THEN -1 ELSE 0]

clay_read_if_table(w, cfg) ==
    IF lua_istable(cfg) THEN clay_read_element_declaration(w, cfg)
    ELSE [reg |-> w.registry, decl |-> DefaultDecl, top |-> 0]

l_Clay_ConfigureElement(w, cfg) ==
    LET r == clay_read_if_table(w, cfg)
    IN Ok(Clay__ConfigureOpenElement([w EXCEPT !.registry = r.reg], r.decl))

\* nargs: the number of arguments the script passed (the Lua stack height on
\* entry); the children callback is argument 3.
l_Clay_CreateElement(w, id, cfg, nargs, fn) ==
    LET w1 == Clay__OpenElementWithId(w, PlainId(id))
        r == clay_read_if_table(w1, cfg)
        w2 == Clay__ConfigureOpenElement([w1 EXCEPT !.registry = r.reg], r.decl)
        top == nargs + r.top
    IN IF top >= 3
       THEN LET c == lua_pcall(w2, 0, fn)
            IN IF c.err THEN Raise(Clay__CloseElement(c.w))
               ELSE Return(Clay__CloseElement(c.w), LuaBoolean(TRUE))
       ELSE Return(Clay__CloseElement(w2), LuaBoolean(TRUE))

----------------------------------------------------------------------------
(* Render commands, the iterator of clay.endLayoutIter and the accessors *)

RenderCommand(type, e, d) ==
    [commandType |-> type, elem |-> e, userData |-> d.userData,
     imageData |-> IF type = "IMAGE" THEN d.imageData ELSE 0,
     customData |-> IF type = "CUSTOM" THEN d.customData ELSE 0]

\* The commands the engine emits for one element.
ElementCommands(e, d) ==
    (IF d.bg THEN <<RenderCommand("RECTANGLE", e, d)>> ELSE <<>>)
    \o (IF d.imageData # 0 THEN <<RenderCommand("IMAGE", e, d)>> ELSE <<>>)
    \o (IF d.customData # 0 THEN <<RenderCommand("CUSTOM", e, d)>> ELSE <<>>)
    \o (IF d.border THEN <<RenderCommand("BORDER", e, d)>> ELSE <<>>)

\* What the layout pass resolves for the element with this id when culling
\* is on: its box lies outside the viewport.
OffscreenOf(id) == id = 1

\* The commands of the elements numbered k and up whose parent is p, in the
\* order declared: the element's own commands, then its children between
\* the scissor pair when it clips.  With culling on, the commands of an
\* element outside the viewport are dropped, its scissor pair with them.
RECURSIVE Clay__CalculateFinalLayout(_, _, _)
Clay__CalculateFinalLayout(w, p, k) ==
    IF k > Len(w.elemDecl) THEN <<>>
    ELSE LET d == w.elemDecl[k]
             shown == ~(w.engine.culling /\ OffscreenOf(w.engine.elemId[k]))
             clips == shown /\ (d.clip.horizontal \/ d.clip.vertical)
         IN (IF w.engine.parent[k] # p THEN <<>>
             ELSE (IF shown THEN ElementCommands(k, d) ELSE <<>>)
                  \o (IF clips THEN <<RenderCommand("SCISSOR_START", k, d)>> ELSE <<>>)
                  \o Clay__CalculateFinalLayout(w, k, k + 1)
                  \o (IF clips THEN <<RenderCommand("SCISSOR_END", k, d)>> ELSE <<>>))
            \o Clay__CalculateFinalLayout(w, p, k + 1)

Clay_EndLayout(w) == Clay__CalculateFinalLayout(w, 0, 1)

\* What the layout pass resolves for the scroll container of element id: the
\* height of its content and its own height.  Element 1 holds content of 1000
\* in a container of 200; the content of every other element fits.
ContentHeightOf(id) == IF id = 1 THEN 1000 ELSE 100
ContainerHeightOf(id) == IF id = 0 THEN 0 ELSE 200

\* The layout pass stores the resolved sizes of the containers seen.
ResolveScrollContainers(scroll) ==
    [i \in 1..Len(scroll) |->
        IF scroll[i].openThisFrame
        THEN [scroll[i] EXCEPT !.contentHeight = ContentHeightOf(scroll[i].elementId),
                               !.containerHeight = ContainerHeightOf(scroll[i].elementId)]
        ELSE scroll[i]]

NoIterator == [made |-> FALSE, index |-> 0]

l_Clay_SetCullingEnabled(w, enabled) == Ok([w EXCEPT !.engine.culling = enabled])

l_Clay_EndLayoutIter_from_one(w) ==
    Return([w EXCEPT !.cmds = Clay_EndLayout(w),
                     !.engine.scroll = ResolveScrollContainers(@),
                     !.iter = [made |-> TRUE, index |-> 1]],
           LuaFunction(0))

l_Clay_EndLayoutIter(w) ==
    Return([w EXCEPT !.cmds = Clay_EndLayout(w),
                     !.engine.scroll = ResolveScrollContainers(@),
                     !.iter = [made |-> TRUE, index |-> 0]],
           LuaFunction(0))

clay_iter_next_repeat(w) ==
    IF ~w.iter.made \/ w.iter.index >= Len(w.cmds) THEN Ok(w)
    ELSE Return(w, LuaCommand(w.iter.index + 1))

clay_iter_next(w) ==
    IF ~w.iter.made \/ w.iter.index >= Len(w.cmds) THEN Ok(w)
    ELSE Return([w EXCEPT !.iter.index = @ + 1], LuaCommand(w.iter.index + 1))

\* The shared body of the three accessors, on the pointer field f of command c.
ClayCmd_payload(w, c, f) ==
    LET p == w.cmds[c][f]
    IN IF p = 0 THEN Return(w, LuaNil)
       ELSE IF clay_is_ref_tag(p)
            THEN LET ref == clay_ref_from_tag(p)
                 IN Return([w EXCEPT !.registry = luaL_unref(@, ref), !.cmds[c][f] = 0],
                           lua_rawgeti(w.registry, ref))
            ELSE Return(w, LuaLight(p))

l_ClayCmd_ImageData(w, c) ==
    IF w.cmds[c].commandType # "IMAGE" THEN Ok(w) ELSE ClayCmd_payload(w, c, "imageData")

l_ClayCmd_CustomData(w, c) ==
    IF w.cmds[c].commandType # "CUSTOM" THEN Ok(w) ELSE ClayCmd_payload(w, c, "customData")

l_ClayCmd_UserData(w, c) == ClayCmd_payload(w, c, "userData")

----------------------------------------------------------------------------
(* Frames and the scroll containers kept across them *)

Min(a, b) == IF a < b THEN a ELSE b
Max(a, b) == IF a > b THEN a ELSE b

\* The lowest scroll position a container allows.
ScrollFloor(c) == -(Max(0, c.contentHeight - c.containerHeight))

\* The content is as wide as its container: only the vertical axis scrolls.
ClampScroll(c, p) == Vector2(Min(Max(p.x, 0), 0), Min(Max(p.y, ScrollFloor(c)), 0))

\* A new frame: the open-element stack, the element tree, the log of the
\* frame and the command array start empty; no scroll container has been
\* seen yet.
Clay_BeginLayout(w) ==
    [w EXCEPT !.stack = <<>>, !.calls = <<>>, !.nextElem = 1, !.elemDecl = <<>>,
              !.underflow = FALSE, !.cmds = <<>>,
              !.engine.elemId = <<>>, !.engine.parent = <<>>, !.engine.element = <<>>,
              !.engine.scroll = [i \in 1..Len(@) |-> [@[i] EXCEPT !.openThisFrame = FALSE]]]

l_Clay_BeginLayout(w) == Ok(Clay_BeginLayout(w))

\* The containers kept by an update: those seen in this frame.
RECURSIVE KeepOpen(_)
KeepOpen(scroll) ==
    IF scroll = <<>> THEN <<>>
    ELSE (IF Head(scroll).openThisFrame THEN <<Head(scroll)>> ELSE <<>>)
         \o KeepOpen(Tail(scroll))

\* Containers not seen in this frame are dropped; the others move by the
\* scroll delta and are clamped to their content.
Clay_UpdateScrollContainers(w, enable, delta, dt) ==
    LET kept == KeepOpen(w.engine.scroll)
    IN [w EXCEPT !.engine.scroll =
           [i \in 1..Len(kept) |->
               [kept[i] EXCEPT !.scrollPosition =
                   ClampScroll(kept[i], Vector2(@.x + delta.x, @.y + delta.y))]]]

l_Clay_UpdateScrollContainers_swapped(w, enable, dx, dy, dt) ==
    Ok(Clay_UpdateScrollContainers(w, enable, Vector2(ToFloat(dy), ToFloat(dx)), ToFloat(dt)))

l_Clay_UpdateScrollContainers(w, enable, dx, dy, dt) ==
    Ok(Clay_UpdateScrollContainers(w, enable, Vector2(ToFloat(dx), ToFloat(dy)), ToFloat(dt)))

l_Clay_GetScrollOffset(w) ==
    Return(w, [t |-> "table", x |-> Clay_GetScrollOffset(w).x, y |-> Clay_GetScrollOffset(w).y])

\* Clay_GetScrollContainerData: the index of the container found (0: none).
Clay_GetScrollContainerData(w, id) == ScrollIndex(w.engine.scroll, id)

l_Clay_SetScrollContainerPosition(w, id, x, y) ==
    LET i == Clay_GetScrollContainerData(w, id)
    IN IF i = 0 THEN Ok(w)
       ELSE Ok([w EXCEPT !.engine.scroll[i].scrollPosition =
                             Vector2(ToFloat(luaL_optnumber(x, 0)), ToFloat(luaL_optnumber(y, 0)))])

l_Clay_SetScrollOffset_all(w, id, x, y) ==
    Ok([w EXCEPT !.engine.scroll =
           [i \in 1..Len(@) |->
               [@[i] EXCEPT !.scrollPosition =
                                Vector2(ToFloat(luaL_optnumber(x, 0)), ToFloat(luaL_optnumber(y, 0))),
                            !.openThisFrame = TRUE]]])

\* The loop over ctx->scrollContainerDatas stops at the first mapping of id.
l_Clay_SetScrollOffset(w, id, x, y) ==
    LET i == ScrollIndex(w.engine.scroll, id)
    IN IF i = 0 THEN Ok(w)
       ELSE Ok([w EXCEPT !.engine.scroll[i].scrollPosition =
                             Vector2(ToFloat(luaL_optnumber(x, 0)), ToFloat(luaL_optnumber(y, 0))),
                         !.engine.scroll[i].openThisFrame = TRUE])

----------------------------------------------------------------------------
(* History kept beside the program state, for stating the properties *)

NoHist == [id |-> 0, elem |-> 0, openAt |-> 0, depthBefore |-> 0,
           foreign |-> FALSE, saidBg |-> FALSE, own |-> <<>>,
           saidH |-> FALSE, saidV |-> FALSE, saidOffset |-> <<>>]

NoCall == [op |-> "none", label |-> <<>>, index |-> LuaNil, isLocal |-> LuaNil,
           parent |-> 0, viaId |-> FALSE, eid |-> NoElementId, ret |-> NoValue]

\* A frame as a script ran it: what it declared, with which inputs, what the
\* engine held at its end; stale: a builder of an earlier frame was still
\* open when it began; whole: every element it opened was closed, and no
\* other.
NoFrame == [op |-> "none", script |-> <<>>, culling |-> FALSE, stale |-> FALSE,
            whole |-> FALSE, cmds |-> <<>>, tree |-> <<>>]

\* The commands the iterator yielded, one clay.id or clay.element call of the
\* past to compare the latest with, and the last two frames.
NoGhost == [yielded |-> <<>>, ref |-> NoCall, prev |-> NoFrame, cur |-> NoFrame]

NoLast == [op |-> "none", b |-> 0, err |-> FALSE, ran |-> FALSE, fnErr |-> FALSE,
           selfClose |-> FALSE, made |-> <<>>, nCalls |-> 0, stackBefore |-> <<>>,
           wasActive |-> FALSE, wasConfigured |-> FALSE, declBefore |-> DefaultDecl,
           hasFn |-> FALSE, ret |-> NoValue, cmd |-> 0, field |-> "none",
           regBefore |-> EmptyRegistry, arg |-> LuaNil, nargs |-> 0,
           shadow |-> [calls |-> <<>>, stack |-> <<>>, err |-> FALSE],
           args |-> <<>>, scrollBefore |-> <<>>]

\* The payload values a script gave an element, and the accessor calls made
\* on the command the iterator returned last.
PayloadFields == {"userData", "imageData", "customData"}
NoSaid == [f \in PayloadFields |-> LuaNil]
NoReads == [f \in PayloadFields |-> 0]
ElemNumbers == 1..(MaxCalls + 1)

SaidBy(cfg) ==
    IF lua_istable(cfg) THEN [f \in PayloadFields |-> cfg[f]] ELSE NoSaid

\* clay.open(id); clay.configure(cfg); fn(); clay.close() run from state w:
\* the engine's log and stack after it, and whether fn raised.
Explicit(w, id, cfg, nargs, fn) ==
    LET a == l_Clay_OpenElement(w, id).w
        b == l_Clay_ConfigureElement(a, cfg).w
        c == IF nargs >= 3 THEN lua_pcall(b, 0, fn) ELSE Ok(b)
        d == l_Clay_CloseElement(c.w).w
    IN [calls |-> d.calls, stack |-> d.stack, err |-> c.err]

\* Every reference a declaration carries lies inside the modelled slots.
DeclRefsFit(d) ==
    \A f \in PayloadFields :
        clay_is_ref_tag(d[f]) => clay_ref_from_tag(d[f]) \in 1..MaxRef

NoTextHist == [saidFont |-> DefaultTextCfg.fontSize, emitted |-> <<>>]

\* The font size a config callback has set when it ends or raises.
RECURSIVE TextFnSaid(_, _, _)
TextFnSaid(fn, active, cur) ==
    IF fn = <<>> THEN cur
    ELSE CASE Head(fn) = "fontSize" ->
                IF active THEN TextFnSaid(Tail(fn), active, TextFnFontSize) ELSE cur
           [] Head(fn) = "close" -> TextFnSaid(Tail(fn), FALSE, cur)
           [] OTHER -> cur

\* The calls a handler added to the engine's log.
Added(w) == SubSeq(w.calls, Len(calls) + 1, Len(w.calls))

Range(s) == {s[i] : i \in 1..Len(s)}

\* The engine calls a children function makes when run to its first error.
RECURSIVE FnCalls(_, _)
FnCalls(fn, selfOpen) ==
    IF fn = <<>> THEN <<>>
    ELSE CASE Head(fn) = "open" -> <<OpenCall(FnChildId)>> \o FnCalls(Tail(fn), selfOpen)
           [] Head(fn) = "close" -> <<CloseCall>> \o FnCalls(Tail(fn), selfOpen)
           [] Head(fn) = "text" -> <<TextCall(DefaultTextCfg)>> \o FnCalls(Tail(fn), selfOpen)
           [] Head(fn) = "closeSelf" ->
                IF selfOpen THEN <<CloseCall>> \o FnCalls(Tail(fn), FALSE) ELSE <<>>
           [] OTHER -> <<>>

RECURSIVE FnRaises(_, _)
FnRaises(fn, selfOpen) ==
    IF fn = <<>> THEN FALSE
    ELSE CASE Head(fn) = "error" -> TRUE
           [] Head(fn) = "closeSelf" -> IF selfOpen THEN FnRaises(Tail(fn), FALSE) ELSE TRUE
           [] OTHER -> FnRaises(Tail(fn), selfOpen)

\* Net number of elements a sequence of calls leaves open; Balanced: it opens
\* what it closes and never closes an element it did not open.
RECURSIVE Net(_)
Net(cs) ==
    IF cs = <<>> THEN 0
    ELSE Net(SubSeq(cs, 1, Len(cs) - 1)) +
         (CASE cs[Len(cs)].op = "open" -> 1 [] cs[Len(cs)].op = "close" -> -1 [] OTHER -> 0)

Balanced(cs) == Net(cs) = 0 /\ \A k \in 0..Len(cs) : Net(SubSeq(cs, 1, k)) >= 0

\* Every other builder that is still open sees a call that is not its own.
MarkForeign(b, w) ==
    [c \in BuilderIds |->
        IF c # b /\ builders[c].active /\ Len(w.calls) > Len(calls)
        THEN [hist[c] EXCEPT !.foreign = TRUE] ELSE hist[c]]

\* Builder b's handler made the calls it added; the other builders see them as
\* foreign.
MarkOwn(b, w) == [MarkForeign(b, w) EXCEPT ![b].own = @ \o Added(w)]

Commit(w) ==
    /\ stack' = w.stack
    /\ calls' = w.calls
    /\ nextElem' = w.nextElem
    /\ elemDecl' = w.elemDecl
    /\ underflow' = w.underflow
    /\ registry' = w.registry
    /\ builders' = w.builders
    /\ texts' = w.texts
    /\ cmds' = w.cmds
    /\ iter' = w.iter
    /\ engine' = w.engine
    /\ host' = w.host

Before(op, b) ==
    [NoLast EXCEPT !.op = op, !.b = b, !.nCalls = Len(calls), !.stackBefore = stack,
                   !.scrollBefore = engine.scroll,
                   !.wasActive = IF b \in BuilderIds THEN builders[b].active ELSE FALSE,
                   !.wasConfigured = IF b \in BuilderIds THEN builders[b].configured ELSE FALSE,
                   !.declBefore = IF b \in BuilderIds THEN builders[b].decl ELSE DefaultDecl]

BeforeText(op, t) ==
    [NoLast EXCEPT !.op = op, !.b = t, !.nCalls = Len(calls), !.stackBefore = stack,
                   !.wasActive = texts[t].active]

\* The script declares its elements before it ends the layout pass.
Declaring == ~iter.made

RefFits(x, p) ==
    lua_isnil(x) \/ lua_islightuserdata(x) \/ RefAvailable(clay_unref_tagged(registry, p).reg)

----------------------------------------------------------------------------
(* Actions: one per Lua-visible handler *)

Init ==
    /\ stack = <<>>
    /\ calls = <<>>
    /\ nextElem = 1
    /\ elemDecl = <<>>
    /\ underflow = FALSE
    /\ registry = EmptyRegistry
    /\ builders = [b \in BuilderIds |-> NoBuilder]
    /\ texts = [t \in TextIds |-> NoText]
    /\ cmds = <<>>
    /\ iter = NoIterator
    /\ engine = NoEngine
    /\ host = NoHost
    /\ ghost = NoGhost
    /\ hist = [b \in BuilderIds |-> NoHist]
    /\ thist = [t \in TextIds |-> NoTextHist]
    /\ said = [e \in ElemNumbers |-> NoSaid]
    /\ reads = NoReads
    /\ last = NoLast

ElementBuilder_New(b, id) ==
    /\ Declaring
    /\ builders[b].state = "none"
    /\ \A c \in BuilderIds : c < b => builders[c].state # "none"
    /\ Len(calls) < MaxCalls
    /\ LET r == l_Clay_ElementBuilder_New(World, b,
                                           clay_push_element_id_table(PlainId(id), <<>>),
                                           LuaNil, LuaNil)
       IN /\ Commit(r.w)
          /\ hist' = [MarkForeign(b, r.w) EXCEPT ![b] =
                         [NoHist EXCEPT !.id = id, !.elem = nextElem,
                                        !.openAt = Len(calls) + 1,
                                        !.own = Added(r.w),
                                        !.depthBefore = Len(stack)]]
          /\ last' = [Before("ElementBuilder_New", b) EXCEPT !.ran = TRUE]
    /\ UNCHANGED <<ghost, thist, said, reads>>

Elem_backgroundColor(b, a) ==
    /\ Declaring
    /\ builders[b].state = "live"
    /\ LET r == l_Elem_backgroundColor(World, b, a)
       IN /\ Commit(r.w)
          /\ hist' = IF r.err THEN hist ELSE [hist EXCEPT ![b].saidBg = a]
          /\ last' = [Before("Elem_backgroundColor", b) EXCEPT !.err = r.err, !.ran = ~r.err]
    /\ UNCHANGED <<ghost, thist, said, reads>>

Elem_userData(b, x) ==
    /\ Declaring
    /\ builders[b].state = "live"
    /\ RefFits(x, builders[b].decl.userData)
    /\ LET r == l_Elem_userData(World, b, x)
       IN /\ Commit(r.w)
          /\ said' = IF r.err THEN said ELSE [said EXCEPT ![hist[b].elem].userData = x]
          /\ last' = [Before("Elem_userData", b) EXCEPT
                         !.err = r.err, !.ran = ~r.err, !.arg = x]
    /\ UNCHANGED <<ghost, hist, thist, reads>>

Elem_borderWidth(b, wd) ==
    /\ Declaring
    /\ builders[b].state = "live"
    /\ LET r == l_Elem_borderWidth(World, b, wd)
       IN /\ Commit(r.w)
          /\ last' = [Before("Elem_borderWidth", b) EXCEPT !.err = r.err, !.ran = ~r.err]
    /\ UNCHANGED <<ghost, hist, thist, said, reads>>

Elem_close(b) ==
    /\ Declaring
    /\ builders[b].state = "live"
    /\ Len(calls) + 2 <= MaxCalls
    /\ LET r == l_Elem_close(World, b)
       IN /\ Commit(r.w)
          /\ hist' = MarkOwn(b, r.w)
          /\ last' = [Before("Elem_close", b) EXCEPT !.err = r.err, !.ran = ~r.err]
    /\ UNCHANGED <<ghost, thist, said, reads>>

Elem_children(b, fn) ==
    /\ Declaring
    /\ builders[b].state = "live"
    /\ Len(calls) + Len(fn) + 2 <= MaxCalls
    /\ LET r == l_Elem_children(World, b, fn)
           ran == builders[b].active
       IN /\ Commit(r.w)
          /\ hist' = MarkOwn(b, r.w)
          /\ last' = [Before("Elem_children", b) EXCEPT
                         !.err = r.err, !.ran = ran,
                         !.fnErr = ran /\ FnRaises(fn, TRUE),
                         !.selfClose = \E k \in 1..Len(fn) : fn[k] = "closeSelf",
                         !.made = IF ran THEN FnCalls(fn, TRUE) ELSE <<>>]
    /\ UNCHANGED <<ghost, thist, said, reads>>

Elem_gc(b) ==
    /\ Declaring
    /\ builders[b].state = "live"
    /\ Len(calls) + 2 <= MaxCalls
    /\ LET r == l_Elem_gc(World, b)
       IN /\ Commit(r.w)
          /\ hist' = MarkOwn(b, r.w)
          /\ last' = [Before("Elem_gc", b) EXCEPT !.ran = TRUE]
    /\ UNCHANGED <<ghost, thist, said, reads>>

OpenElement(id) ==
    /\ Declaring
    /\ Len(calls) < MaxCalls
    /\ LET r == l_Clay_OpenElement(World, id)
       IN /\ Commit(r.w)
          /\ hist' = MarkForeign(0, r.w)
          /\ last' = [Before("OpenElement", 0) EXCEPT
                         !.err = r.err, !.ret = r.ret, !.ran = TRUE]
    /\ UNCHANGED <<ghost, thist, said, reads>>

CloseElement ==
    /\ Declaring
    /\ Len(calls) < MaxCalls
    /\ LET r == l_Clay_CloseElement(World)
       IN /\ Commit(r.w)
          /\ hist' = MarkForeign(0, r.w)
          /\ last' = [Before("CloseElement", 0) EXCEPT
                         !.err = r.err, !.ret = r.ret, !.ran = TRUE]
    /\ UNCHANGED <<ghost, thist, said, reads>>

Elem_clip(b, n, h, v) ==
    /\ Declaring
    /\ builders[b].state = "live"
    /\ LET r == l_Elem_clip(World, b, n, h, v)
       IN /\ Commit(r.w)
          /\ hist' = IF r.err THEN hist
                     ELSE [hist EXCEPT ![b].saidH = h, ![b].saidV = IF n = 1 THEN h ELSE v]
          /\ last' = [Before("Elem_clip", b) EXCEPT !.err = r.err, !.ran = ~r.err]
    /\ UNCHANGED <<ghost, thist, said, reads>>

Elem_childOffset(b, x, y) ==
    /\ Declaring
    /\ builders[b].state = "live"
    /\ LET r == l_Elem_childOffset(World, b, x, y)
       IN /\ Commit(r.w)
          /\ hist' = IF r.err THEN hist ELSE [hist EXCEPT ![b].saidOffset = <<x, y>>]
          /\ last' = [Before("Elem_childOffset", b) EXCEPT !.err = r.err, !.ran = ~r.err]
    /\ UNCHANGED <<ghost, thist, said, reads>>

\* clay.beginLayout(); the script has let go of the iterator of the frame
\* before.
BeginLayout ==
    /\ LET r == l_Clay_BeginLayout(World)
       IN /\ Commit([r.w EXCEPT !.iter = NoIterator])
          /\ last' = [Before("BeginLayout", 0) EXCEPT !.err = r.err, !.ran = TRUE]
          /\ hist' = [b \in BuilderIds |-> [hist[b] EXCEPT !.foreign = TRUE]]
          /\ reads' = NoReads
          /\ said' = [e \in ElemNumbers |-> NoSaid]
          /\ ghost' = [ghost EXCEPT !.yielded = <<>>]
    /\ UNCHANGED thist

SetScrollOffset(id, x, y) ==
    /\ LET r == l_Clay_SetScrollOffset(World, id, x, y)
       IN /\ Commit(r.w)
          /\ last' = [Before("SetScrollOffset", 0) EXCEPT
                         !.err = r.err, !.ret = r.ret, !.ran = TRUE, !.args = <<id, x, y>>]
    /\ UNCHANGED <<ghost, hist, thist, said, reads>>

SetScrollContainerPosition(id, x, y) ==
    /\ LET r == l_Clay_SetScrollContainerPosition(World, id, x, y)
       IN /\ Commit(r.w)
          /\ last' = [Before("SetScrollContainerPosition", 0) EXCEPT
                         !.err = r.err, !.ret = r.ret, !.ran = TRUE, !.args = <<id, x, y>>]
    /\ UNCHANGED <<ghost, hist, thist, said, reads>>

UpdateScrollContainers(enable, dx, dy, dt) ==
    /\ LET r == l_Clay_UpdateScrollContainers(World, enable, dx, dy, dt)
       IN /\ Commit(r.w)
          /\ last' = [Before("UpdateScrollContainers", 0) EXCEPT
                         !.err = r.err, !.ret = r.ret, !.ran = TRUE,
                         !.args = <<enable, dx, dy, dt>>]
    /\ UNCHANGED <<ghost, hist, thist, said, reads>>

\* The element builder with the raw open/close calls around it.
NextElem ==
    \/ \E b \in BuilderIds, id \in ElementIds : ElementBuilder_New(b, id)
    \/ \E b \in BuilderIds : Elem_backgroundColor(b, TRUE)
    \/ \E b \in BuilderIds : Elem_close(b)
    \/ \E b \in BuilderIds, fn \in BuilderFns : Elem_children(b, fn)
    \/ \E b \in BuilderIds : Elem_gc(b)
    \/ OpenElement(FnChildId)
    \/ CloseElement

SpecElem == Init /\ [][NextElem]_vars

----------------------------------------------------------------------------
(* Properties of the element builder *)

\* The declaration the setters called on builder b add up to.
SaidDecl(b) == [DefaultDecl EXCEPT !.bg = hist[b].saidBg]

\* The calls the engine received from the open of builder b on.
Segment(b) == SubSeq(calls, hist[b].openAt, Len(calls))

ClosedJustNow(b) ==
    /\ last.op \in {"Elem_close", "Elem_children"}
    /\ last.b = b
    /\ last.ran
    /\ ~hist[b].foreign

\* Builder b has just been closed by :close() or :children(fn), whatever the
\* script did between clay.element and that close.
Closed(b) ==
    /\ last.op \in {"Elem_close", "Elem_children"}
    /\ last.b = b
    /\ last.ran

\* What the engine received between the open of builder b and its last call.
Between(b) == SubSeq(calls, hist[b].openAt + 1, Len(calls) - 1)

\* C1: a builder closed by :close() or :children(fn) has given the engine one
\* open (at clay.element), then one configure carrying the values of its
\* setters, then the calls of fn, then one close, in that order; and when what
\* ran between the open and the close (fn, and with it anything else the script
\* called in between) is balanced, the stack is as deep after the close as
\* before clay.element.
C1_BuilderLifecycle ==
    \A b \in BuilderIds :
        Closed(b) =>
            /\ hist[b].own = <<OpenCall(hist[b].id), ConfigureCall(SaidDecl(b))>>
                                \o last.made \o <<CloseCall>>
            /\ ~hist[b].foreign => Segment(b) = hist[b].own
            /\ Balanced(Between(b)) => Len(stack) = hist[b].depthBefore

C1_Witness ==
    \E b \in BuilderIds :
        /\ ClosedJustNow(b)
        /\ last.op = "Elem_children"
        /\ hist[b].saidBg
        /\ Len(last.made) = 2
        /\ Balanced(last.made)
        /\ Balanced(Between(b))
        /\ hist[b].depthBefore = 0
        /\ stack = <<>>

\* C2: when fn raises, children() leaves the builder's own element closed (the
\* stack as deep as before clay.element) and the builder inactive, whatever fn
\* did before failing.
C2_ChildrenErrorClosesOwn ==
    \A b \in BuilderIds :
        (ClosedJustNow(b) /\ last.op = "Elem_children" /\ last.fnErr /\ ~last.selfClose) =>
            /\ hist[b].elem \notin Range(stack)
            /\ Len(stack) = hist[b].depthBefore
            /\ ~builders[b].active

\* C3 as amended: finalizing an open builder makes one configure call with its
\* pending declaration (unless it was configured) and one close call, both on
\* the element on top of the stack at that moment, and leaves the builder
\* inactive; the element closed is the builder's own when that is the top;
\* finalizing a closed builder makes no engine call.
C3_GcBestEffort ==
    \A b \in BuilderIds :
        (last.op = "Elem_gc" /\ last.b = b) =>
            LET before == SubSeq(calls, 1, last.nCalls)
                n == Len(last.stackBefore)
            IN IF last.wasActive
               THEN /\ calls = before
                              \o (IF last.wasConfigured THEN <<>>
                                  ELSE <<ConfigureCall(last.declBefore)>>)
                              \o <<CloseCall>>
                    /\ stack = SubSeq(last.stackBefore, 1, n - 1)
                    /\ ~builders[b].active
                    /\ (n > 0 /\ ~last.wasConfigured) =>
                           elemDecl[last.stackBefore[n]] = last.declBefore
                    /\ (n > 0 /\ last.stackBefore[n] = hist[b].elem) =>
                           hist[b].elem \notin Range(stack)
               ELSE calls = before /\ stack = last.stackBefore

C3_Witness ==
    \E b \in BuilderIds :
        /\ last.op = "Elem_gc"
        /\ last.b = b
        /\ last.wasActive
        /\ ~last.wasConfigured
        /\ last.declBefore.bg
        /\ Len(last.stackBefore) = 2
        /\ last.stackBefore[2] # hist[b].elem
        /\ hist[b].elem \in Range(stack)

\* C3 as written: finalizing an open builder closes that builder's own element.
C3_GcClosesOwnElement ==
    \A b \in BuilderIds :
        (last.op = "Elem_gc" /\ last.b = b /\ last.wasActive) =>
            hist[b].elem \notin Range(stack)

----------------------------------------------------------------------------
(* Actions of the table API, the iterator and the command accessors *)

ConfigureElement(cfg) ==
    /\ Declaring
    /\ Len(calls) < MaxCalls
    /\ DeclRefsFit(clay_read_if_table(World, cfg).decl)
    /\ LET r == l_Clay_ConfigureElement(World, cfg)
       IN /\ Commit(r.w)
          /\ hist' = MarkForeign(0, r.w)
          /\ said' = IF stack = <<>> THEN said
                     ELSE [said EXCEPT ![stack[Len(stack)]] = SaidBy(cfg)]
          /\ last' = [Before("ConfigureElement", 0) EXCEPT
                         !.err = r.err, !.ret = r.ret, !.ran = TRUE, !.arg = cfg,
                         !.regBefore = registry]
    /\ UNCHANGED <<ghost, thist, reads>>

CreateElement(id, cfg, nargs, fn) ==
    /\ Declaring
    /\ nargs >= 3 \/ fn = <<>>
    /\ Len(calls) + Len(fn) + 3 <= MaxCalls
    /\ DeclRefsFit(clay_read_if_table(World, cfg).decl)
    /\ LET r == l_Clay_CreateElement(World, id, cfg, nargs, fn)
       IN /\ Commit(r.w)
          /\ hist' = MarkForeign(0, r.w)
          /\ said' = [said EXCEPT ![nextElem] = SaidBy(cfg)]
          /\ last' = [Before("CreateElement", 0) EXCEPT
                         !.err = r.err, !.ret = r.ret, !.ran = TRUE, !.arg = cfg,
                         !.nargs = nargs, !.regBefore = registry,
                         !.shadow = Explicit(World, id, cfg, nargs, fn)]
    /\ UNCHANGED <<ghost, thist, reads>>

EndLayoutIter ==
    /\ Declaring
    /\ LET r == l_Clay_EndLayoutIter(World)
       IN /\ Commit(r.w)
          /\ reads' = NoReads
          /\ last' = [Before("EndLayoutIter", 0) EXCEPT
                         !.err = r.err, !.ret = r.ret, !.ran = TRUE]
          /\ ghost' = [ghost EXCEPT !.yielded = <<>>]
    /\ UNCHANGED <<hist, thist, said>>

IterNext ==
    /\ iter.made
    /\ LET r == clay_iter_next(World)
       IN /\ Commit(r.w)
          /\ reads' = IF r.ret = NoValue THEN reads ELSE NoReads
          /\ last' = [Before("IterNext", 0) EXCEPT
                         !.err = r.err, !.ret = r.ret, !.ran = TRUE,
                         !.args = <<iter.index>>]
          /\ ghost' = IF r.ret = NoValue THEN ghost
                      ELSE [ghost EXCEPT !.yielded = Append(@, r.ret.v)]
    /\ UNCHANGED <<hist, thist, said>>

\* The script calls the accessors on the command the iterator returned last.
Reading(f) ==
    /\ iter.made
    /\ iter.index >= 1
    /\ reads.userData + reads.imageData + reads.customData < MaxReads

ReadBy(op, f, r) ==
    /\ Commit(r.w)
    /\ reads' = IF r.ret = NoValue THEN reads ELSE [reads EXCEPT ![f] = @ + 1]
    /\ last' = [Before(op, 0) EXCEPT
                   !.err = r.err, !.ret = r.ret, !.ran = r.ret # NoValue,
                   !.cmd = iter.index, !.field = f, !.regBefore = registry]
    /\ UNCHANGED <<ghost, hist, thist, said>>

Cmd_userData ==
    /\ Reading("userData")
    /\ ReadBy("Cmd_userData", "userData", l_ClayCmd_UserData(World, iter.index))

Cmd_imageData ==
    /\ Reading("imageData")
    /\ ReadBy("Cmd_imageData", "imageData", l_ClayCmd_ImageData(World, iter.index))

Cmd_customData ==
    /\ Reading("customData")
    /\ ReadBy("Cmd_customData", "customData", l_ClayCmd_CustomData(World, iter.index))

\* The payload values and config tables of the frames explored.
DataValues == {LuaNil, LuaTable(1), LuaLight(3), LuaLight(4)}
DataTables ==
    {ConfigTable(TRUE, border, nested[1], nested[2], ud) :
        border \in BOOLEAN,
        nested \in {<<LuaNil, LuaNil>>, <<LuaTable(2), LuaNil>>, <<LuaNil, LuaTable(2)>>},
        ud \in DataValues}

\* A frame declared through clay.createElement and one fluent builder, then
\* drawn: endLayoutIter, the iterator, the accessors.
NextData ==
    \/ \E cfg \in DataTables : CreateElement(FnChildId, cfg, 2, <<>>)
    \/ \E id \in ElementIds \ {FnChildId} : ElementBuilder_New(1, id)
    \/ Elem_backgroundColor(1, TRUE)
    \/ Elem_borderWidth(1, TRUE)
    \/ \E x \in {LuaTable(1), LuaLight(4)} : Elem_userData(1, x)
    \/ Elem_close(1)
    \/ EndLayoutIter
    \/ IterNext
    \/ Cmd_userData
    \/ Cmd_imageData
    \/ Cmd_customData

SpecData == Init /\ [][NextData]_vars

CreateTables ==
    {LuaNil} \cup {ConfigTable(TRUE, FALSE, LuaNil, LuaNil, ud) :
                      ud \in {LuaTable(1), LuaLight(4)}}

\* A frame declared through the table API: createElement beside the explicit
\* open / configure / close calls.
NextCreate ==
    \/ \E id \in ElementIds, cfg \in CreateTables, nargs \in {2, 3}, fn \in PlainFns :
          CreateElement(id, cfg, nargs, fn)
    \/ OpenElement(FnChildId)
    \/ \E cfg \in CreateTables : ConfigureElement(cfg)
    \/ CloseElement
    \/ EndLayoutIter

SpecCreate == Init /\ [][NextCreate]_vars

----------------------------------------------------------------------------
(* Actions of the text builder *)

TextBuilder_New(t, hasFn, fn) ==
    /\ texts[t].state = "none"
    /\ \A c \in TextIds : c < t => texts[c].state # "none"
    /\ hasFn \/ fn = <<>>
    /\ Len(calls) < MaxCalls
    /\ LET r == l_Clay_TextBuilder_New(World, t, hasFn, fn)
       IN /\ Commit(r.w)
          /\ thist' = [thist EXCEPT ![t] =
                          [saidFont |-> TextFnSaid(fn, TRUE, DefaultTextCfg.fontSize),
                           emitted |-> Added(r.w)]]
          /\ last' = [BeforeText("TextBuilder_New", t) EXCEPT
                         !.err = r.err, !.fnErr = r.err, !.hasFn = hasFn, !.ran = TRUE]
    /\ UNCHANGED <<ghost, hist, said, reads>>

Text_fontSize(t, n) ==
    /\ texts[t].state = "live"
    /\ LET r == l_Text_fontSize(World, t, n)
       IN /\ Commit(r.w)
          /\ thist' = IF r.err THEN thist ELSE [thist EXCEPT ![t].saidFont = n]
          /\ last' = [BeforeText("Text_fontSize", t) EXCEPT !.err = r.err, !.ran = ~r.err]
    /\ UNCHANGED <<ghost, hist, said, reads>>

Text_userData(t, x) ==
    /\ texts[t].state = "live"
    /\ RefFits(x, texts[t].cfg.userData)
    /\ LET r == l_Text_userData(World, t, x)
       IN /\ Commit(r.w)
          /\ last' = [BeforeText("Text_userData", t) EXCEPT !.err = r.err, !.ran = ~r.err]
    /\ UNCHANGED <<ghost, hist, thist, said, reads>>

Text_close(t) ==
    /\ texts[t].state = "live"
    /\ Len(calls) < MaxCalls
    /\ LET r == l_Text_close(World, t)
       IN /\ Commit(r.w)
          /\ thist' = [thist EXCEPT ![t].emitted = @ \o Added(r.w)]
          /\ last' = [BeforeText("Text_close", t) EXCEPT !.err = r.err, !.ran = TRUE]
    /\ UNCHANGED <<ghost, hist, said, reads>>

Text_done(t) ==
    /\ texts[t].state = "live"
    /\ Len(calls) < MaxCalls
    /\ LET r == l_Text_done(World, t)
       IN /\ Commit(r.w)
          /\ thist' = [thist EXCEPT ![t].emitted = @ \o Added(r.w)]
          /\ last' = [BeforeText("Text_done", t) EXCEPT !.err = r.err, !.ran = TRUE]
    /\ UNCHANGED <<ghost, hist, said, reads>>

Text_gc(t) ==
    /\ texts[t].state = "live"
    /\ LET r == l_Text_gc(World, t)
       IN /\ Commit(r.w)
          /\ thist' = [thist EXCEPT ![t].emitted = @ \o Added(r.w)]
          /\ last' = [BeforeText("Text_gc", t) EXCEPT !.err = r.err, !.ran = TRUE]
    /\ UNCHANGED <<ghost, hist, said, reads>>

\* Scripts that declare text through the fluent text builder.
NextText ==
    \/ \E t \in TextIds, hasFn \in BOOLEAN, fn \in TextFns : TextBuilder_New(t, hasFn, fn)
    \/ \E t \in TextIds, n \in FontSizes : Text_fontSize(t, n)
    \/ \E t \in TextIds, x \in PayloadValues : Text_userData(t, x)
    \/ \E t \in TextIds : Text_close(t)
    \/ \E t \in TextIds : Text_done(t)
    \/ \E t \in TextIds : Text_gc(t)

SpecText == Init /\ [][NextText]_vars

----------------------------------------------------------------------------
(* Properties of the text builder *)

TextSetters == {"Text_fontSize", "Text_userData"}
TextClosers == {"Text_close", "Text_done"}

\* C8: a text builder emits at most one text element; a :close()/:done() on a
\* builder that has not emitted, or the normal return of the config callback,
\* leaves exactly one emitted element carrying the configured font size; a
\* later :close()/:done(), and finalization, emit nothing; a setter on a
\* builder that has emitted raises and changes nothing.
C8_TextEmitsOnce ==
    \A t \in TextIds :
        /\ Len(thist[t].emitted) <= 1
        /\ (last.b = t /\ last.op \in TextClosers /\ last.wasActive) =>
               /\ thist[t].emitted = <<calls[Len(calls)]>>
               /\ Len(calls) = last.nCalls + 1
               /\ calls[Len(calls)].op = "text"
               /\ calls[Len(calls)].cfg.fontSize = thist[t].saidFont
        /\ (last.b = t /\ last.op \in TextClosers /\ ~last.wasActive) =>
               /\ Len(calls) = last.nCalls
               /\ ~last.err
        /\ (last.b = t /\ last.op = "TextBuilder_New" /\ last.hasFn /\ ~last.err) =>
               /\ Len(thist[t].emitted) = 1
               /\ Len(calls) = last.nCalls + 1
               /\ thist[t].emitted[1].cfg.fontSize = thist[t].saidFont
        /\ (last.b = t /\ last.op = "Text_gc") => Len(calls) = last.nCalls
        /\ (last.b = t /\ last.op \in TextSetters /\ thist[t].emitted # <<>>) =>
               /\ last.err
               /\ Len(calls) = last.nCalls
               /\ texts[t].cfg.fontSize = thist[t].emitted[1].cfg.fontSize

C8_Witness ==
    \E t \in TextIds :
        /\ last.b = t
        /\ last.op \in TextClosers
        /\ ~last.wasActive
        /\ Len(thist[t].emitted) = 1
        /\ thist[t].saidFont = TextFnFontSize
        /\ thist[t].emitted[1].cfg.fontSize = TextFnFontSize

----------------------------------------------------------------------------
(* Properties of the payloads carried through render commands *)

CmdAccessors == {"Cmd_userData", "Cmd_imageData", "Cmd_customData"}

\* The accessor that ran last applied to its command and returned a value.
JustRead == last.op \in CmdAccessors /\ last.ran

\* The value the script gave, for the field just read, to the element the
\* command belongs to.
Original == said[cmds[last.cmd].elem][last.field]

\* A Lua value that is neither nil nor a lightuserdata.
IsBoxed(x) == ~lua_isnil(x) /\ ~lua_islightuserdata(x)

\* C4: for a payload given as a non-lightuserdata Lua value, the first call of
\* the matching accessor on a command returns that value, releases its
\* registry reference and clears the command's pointer; every later call on
\* the same command returns nil.
C4_OneShotPayload ==
    (JustRead /\ IsBoxed(Original)) =>
        IF reads[last.field] = 1
        THEN /\ last.ret = Original
             /\ cmds[last.cmd][last.field] = 0
             /\ \E ref \in 1..MaxRef :
                    /\ last.regBefore[ref] = Original
                    /\ registry = luaL_unref(last.regBefore, ref)
        ELSE last.ret = LuaNil

\* C5: for a payload given as a lightuserdata pointer, every call of the
\* matching accessor returns that pointer, leaves it on the command and
\* releases no registry entry.
C5_LightPointerStable ==
    (JustRead /\ lua_islightuserdata(Original)) =>
        /\ last.ret = Original
        /\ cmds[last.cmd][last.field] = lua_touserdata(Original)
        /\ registry = last.regBefore

\* C6: when the declaration of an element carries a Lua value as userData,
\* the first cmd:userData() on each command of that element returns that
\* value, whether or not userData() was called on another of its commands.
C6_UserDataPerCommand ==
    ( /\ JustRead
      /\ last.field = "userData"
      /\ reads.userData = 1
      /\ IsBoxed(Original)
      /\ clay_is_ref_tag(elemDecl[cmds[last.cmd].elem].userData) ) =>
        last.ret = Original

----------------------------------------------------------------------------
(* Properties of the table API *)

TableOps == {"ConfigureElement", "CreateElement"}

\* The declaration the handler that ran last handed to the engine.
ConfiguredDecl ==
    IF last.op = "ConfigureElement" THEN calls[Len(calls)].decl
    ELSE calls[last.nCalls + 2].decl

\* The registry when the reader reaches the userData field.
RegAtUserData ==
    clay_read_payload(clay_read_payload(last.regBefore, last.arg.imageData).reg,
                      last.arg.customData).reg

\* C7: clay.configure(tbl) and clay.createElement(id, tbl, ...) hand the engine
\* a declaration whose userData is a tagged registry reference to the value
\* for a non-nil, non-lightuserdata value and the raw pointer for a
\* lightuserdata: what the builder's :userData(value) stores.
C7_TableUserData ==
    (last.op \in TableOps /\ lua_istable(last.arg)) =>
        LET x == last.arg.userData
            p == ConfiguredDecl.userData
        IN /\ p = clay_set_ptr_from_lua(RegAtUserData, x, 0).p
           /\ IsBoxed(x) =>
                 /\ clay_is_ref_tag(p)
                 /\ lua_rawgeti(registry, clay_ref_from_tag(p)) = x
           /\ lua_islightuserdata(x) => p = lua_touserdata(x)

\* C9: clay.createElement(id, config, childrenFn) gives the engine the calls
\* of clay.open(id); clay.configure(config); childrenFn(); clay.close() and
\* leaves the same open-element stack, for a childrenFn that returns normally.
C9_CreateElementAsExplicit ==
    (last.op = "CreateElement" /\ ~last.shadow.err) =>
        /\ calls = last.shadow.calls
        /\ stack = last.shadow.stack

\* C10: clay.close() with no element open, and clay.endLayoutIter() with
\* elements still open, raise an error or hand the caller a failure value.
C10_MisuseReported ==
    ( \/ last.op = "CloseElement" /\ last.stackBefore = <<>>
      \/ last.op = "EndLayoutIter" /\ last.stackBefore # <<>> ) =>
        \/ last.err
        \/ last.ret \in {LuaNil, LuaBoolean(FALSE)}

----------------------------------------------------------------------------
(* Clipping elements and the default child offset *)

\* The clip tables a script passes: the vertical axis set with childOffset
\* left out or given (y left out of the offset table), and no axis set.
ClipTables ==
    {[ConfigTable(FALSE, FALSE, LuaNil, LuaNil, LuaNil) EXCEPT !.clip = c] :
        c \in {ClipTable(FALSE, TRUE, LuaNil),
               ClipTable(FALSE, TRUE, OffsetTable(LuaNumber(5), LuaNil)),
               ClipTable(FALSE, FALSE, LuaNil)}}

\* The position a script scrolls a container to.
ScrollTarget == LuaNumber(-100)

\* The frames of this specification are short.
ShortFrame == Len(calls) < MaxFrameCalls

NextClip ==
    \/ BeginLayout
    \/ ShortFrame /\ OpenElement(FnChildId)
    \/ \E cfg \in ClipTables : ShortFrame /\ ConfigureElement(cfg)
    \/ \E cfg \in ClipTables : ShortFrame /\ CreateElement(FnChildId, cfg, 2, <<>>)
    \/ ShortFrame /\ CloseElement
    \/ ShortFrame /\ ElementBuilder_New(1, FnChildId)
    \/ Elem_clip(1, 1, TRUE, TRUE)
    \/ Elem_childOffset(1, 5, 0)
    \/ ShortFrame /\ Elem_close(1)
    \/ SetScrollOffset(FnChildId, LuaNil, ScrollTarget)

SpecClip == Init /\ [][NextClip]_vars

\* The scroll position kept for element id in the containers sc.
OffsetIn(sc, id) ==
    IF ScrollIndex(sc, id) = 0 THEN Vector2(0, 0) ELSE sc[ScrollIndex(sc, id)].scrollPosition

\* The child offset a config table asks for, given the scroll offset off of
\* the element it configures.
TableChildOffset(cfg, off) ==
    IF ~lua_istable(cfg) THEN Vector2(0, 0)
    ELSE IF ~lua_istable(cfg.clip) THEN Vector2(0, 0)
    ELSE IF lua_istable(cfg.clip.childOffset)
         THEN Vector2(ToFloat(luaL_optnumber(cfg.clip.childOffset.x, 0)),
                      ToFloat(luaL_optnumber(cfg.clip.childOffset.y, 0)))
    ELSE IF cfg.clip.horizontal \/ cfg.clip.vertical THEN off
    ELSE Vector2(0, 0)

\* The child offset the setters of builder b ask for.
BuilderChildOffset(b, off) ==
    IF hist[b].saidOffset # <<>>
    THEN Vector2(ToFloat(hist[b].saidOffset[1]), ToFloat(hist[b].saidOffset[2]))
    ELSE IF hist[b].saidH \/ hist[b].saidV THEN off
    ELSE Vector2(0, 0)

\* The element a builder's close configured: the top of the stack it found.
ConfiguredId ==
    IF last.stackBefore = <<>> THEN 0
    ELSE engine.elemId[last.stackBefore[Len(last.stackBefore)]]

\* C11: with a clip axis set and no childOffset given, the declaration handed
\* to the engine carries the scroll offset the engine keeps for the element
\* being configured, read while that element is the open one; a childOffset
\* given is passed as it is; with no axis and no offset it is (0,0).  For
\* clay.configure, for clay.createElement and for the fluent builder.
C11_ClipChildOffset ==
    /\ (last.op = "ConfigureElement") =>
          calls[Len(calls)].decl.clip.childOffset =
              TableChildOffset(last.arg, OffsetIn(last.scrollBefore, ConfiguredId))
    /\ (last.op = "CreateElement") =>
          calls[last.nCalls + 2].decl.clip.childOffset =
              TableChildOffset(last.arg, OffsetIn(last.scrollBefore, calls[last.nCalls + 1].id))
    /\ (last.op = "Elem_close" /\ last.ran /\ ~last.wasConfigured) =>
          calls[last.nCalls + 1].decl.clip.childOffset =
              BuilderChildOffset(last.b, OffsetIn(last.scrollBefore, ConfiguredId))

\* A builder with clip set and no offset given picked up a scroll position
\* that is not (0,0).
C11_Witness ==
    /\ last.op = "Elem_close" /\ last.ran /\ ~last.wasConfigured
    /\ hist[last.b].saidV /\ hist[last.b].saidOffset = <<>>
    /\ calls[last.nCalls + 1].decl.clip.childOffset = Vector2(0, -100)

----------------------------------------------------------------------------
(* The commands of a frame and the iterator over them *)

\* The script switches culling before it declares the frame.
SetCullingEnabled(enabled) ==
    /\ calls = <<>> /\ Declaring
    /\ engine.culling # enabled
    /\ LET r == l_Clay_SetCullingEnabled(World, enabled)
       IN /\ Commit(r.w)
          /\ last' = [Before("SetCullingEnabled", 0) EXCEPT !.err = r.err, !.ran = TRUE]
    /\ UNCHANGED <<ghost, hist, thist, said, reads>>

\* The config tables of the frame: a clipping element, and a plain one with
\* a background.
ScissorTables ==
    {[ConfigTable(FALSE, FALSE, LuaNil, LuaNil, LuaNil) EXCEPT
          !.clip = ClipTable(FALSE, TRUE, LuaNil)],
     ConfigTable(TRUE, FALSE, LuaNil, LuaNil, LuaNil)}

NextScissor ==
    \/ \E enabled \in BOOLEAN : SetCullingEnabled(enabled)
    \/ \E id \in ElementIds : OpenElement(id)
    \/ \E cfg \in ScissorTables : ConfigureElement(cfg)
    \/ CloseElement
    \/ EndLayoutIter
    \/ IterNext

SpecScissor == Init /\ [][NextScissor]_vars

\* The commands the iterator has yielded so far.
Yielded == [i \in 1..Len(ghost.yielded) |-> cmds[ghost.yielded[i]]]

\* Scissor regions left open by a sequence of commands.
RECURSIVE ScissorDepth(_)
ScissorDepth(cs) ==
    IF cs = <<>> THEN 0
    ELSE ScissorDepth(SubSeq(cs, 1, Len(cs) - 1)) +
         (CASE cs[Len(cs)].commandType = "SCISSOR_START" -> 1
            [] cs[Len(cs)].commandType = "SCISSOR_END" -> -1
            [] OTHER -> 0)

ScissorNested(cs) == \A k \in 0..Len(cs) : ScissorDepth(SubSeq(cs, 1, k)) >= 0

\* C12: with culling on or off, the commands of the frame, and the commands
\* the iterator of clay.endLayoutIter yields, hold one SCISSOR_END for each
\* SCISSOR_START, properly nested: no prefix has more ends than starts, and
\* the totals are equal once all commands were yielded.
C12_ScissorBalanced ==
    iter.made =>
        /\ ScissorNested(cmds) /\ ScissorDepth(cmds) = 0
        /\ ScissorNested(Yielded)
        /\ (last.op = "IterNext" /\ last.ret = NoValue) => ScissorDepth(Yielded) = 0

\* Culling is on, two clipping elements were declared, one inside the other,
\* the one outside the viewport lost its scissor pair, and the iterator has
\* yielded the whole frame.
C12_Witness ==
    /\ iter.made /\ engine.culling
    /\ last.op = "IterNext" /\ last.ret = NoValue
    /\ Len(elemDecl) = 2 /\ engine.parent = <<0, 1>>
    /\ \A e \in 1..2 : elemDecl[e].clip.vertical
    /\ Cardinality({i \in 1..Len(Yielded) : Yielded[i].commandType = "SCISSOR_START"}) = 1
    /\ Cardinality({i \in 1..Len(Yielded) : Yielded[i].commandType = "SCISSOR_END"}) = 1

\* C15: the closure of clay.endLayoutIter yields the commands of the frame
\* once each, in array order; its index moves by one per command yielded,
\* never back and never past the length; once all were yielded it returns
\* nothing, on that call and on every later one.
C15_IteratorYieldsEachOnce ==
    iter.made =>
        /\ iter.index \in 0..Len(cmds)
        /\ ghost.yielded = [i \in 1..iter.index |-> i]
        /\ (last.op = "IterNext") =>
              IF last.args[1] < Len(cmds)
              THEN /\ last.ret = LuaCommand(last.args[1] + 1)
                   /\ iter.index = last.args[1] + 1
              ELSE /\ last.ret = NoValue
                   /\ iter.index = last.args[1]

\* A frame of three commands was yielded whole and the next call returned
\* nothing.
C15_Witness ==
    /\ iter.made /\ Len(cmds) = 3
    /\ last.op = "IterNext" /\ last.ret = NoValue
    /\ ghost.yielded = <<1, 2, 3>>

----------------------------------------------------------------------------
(* Scroll containers across frames *)

\* The element whose content is taller than its container.
TallId == CHOOSE i \in ElementIds : ContentHeightOf(i) > ContainerHeightOf(i)

\* The ids a script scrolls by: the two it declares and one it never declares.
ScrollIds == ElementIds \cup {3}

VerticalClip ==
    [ConfigTable(FALSE, FALSE, LuaNil, LuaNil, LuaNil)
        EXCEPT !.clip = ClipTable(FALSE, TRUE, LuaNil)]

\* Frames that declare one scroll container, scrolled by the wheel (delta
\* (0, -50)) and by the script (to far below the content, or above its top).
NextScroll ==
    \/ BeginLayout
    \/ ShortFrame /\ OpenElement(TallId)
    \/ ShortFrame /\ ConfigureElement(VerticalClip)
    \/ EndLayoutIter
    \/ SetScrollOffset(TallId, LuaNil, LuaNumber(-2000))
    \/ SetScrollContainerPosition(TallId, LuaNil, LuaNumber(50))
    \/ UpdateScrollContainers(TRUE, 0, -50, 1)

SpecScroll == Init /\ [][NextScroll]_vars

\* Frames that declare two scroll containers, scrolled by the script: x left
\* out or given, for an id with a container or without one.
NextOffset ==
    \/ BeginLayout
    \/ \E id \in ElementIds : ShortFrame /\ OpenElement(id)
    \/ ShortFrame /\ ConfigureElement(VerticalClip)
    \/ \E id \in ScrollIds : SetScrollOffset(id, LuaNil, LuaNumber(-2000))
    \/ \E id \in ScrollIds : SetScrollOffset(id, LuaNumber(7), LuaNumber(-750))
    \/ UpdateScrollContainers(TRUE, 0, -50, 1)

SpecOffset == Init /\ [][NextOffset]_vars

InRange(c) == ScrollFloor(c) <= c.scrollPosition.y /\ c.scrollPosition.y <= 0

C14_SetScrollOffset ==
    (last.op = "SetScrollOffset") =>
        LET before == last.scrollBefore
            i == ScrollIndex(before, last.args[1])
        IN /\ ~last.err
           /\ Len(engine.scroll) = Len(before)
           /\ \A j \in 1..Len(before) :
                 IF j = i
                 THEN engine.scroll[j] =
                        [before[j] EXCEPT
                            !.scrollPosition = Vector2(luaL_optnumber(last.args[2], 0),
                                                       luaL_optnumber(last.args[3], 0)),
                            !.openThisFrame = TRUE]
                 ELSE engine.scroll[j] = before[j]

\* Two containers are kept; the second, not seen in this frame and at another
\* position, was put at (0, -2000) with x left out, the first is as before.
C14_Witness ==
    /\ last.op = "SetScrollOffset"
    /\ Len(engine.scroll) = 2
    /\ ScrollIndex(last.scrollBefore, last.args[1]) = 2
    /\ ~last.scrollBefore[2].openThisFrame
    /\ last.scrollBefore[2].scrollPosition # Vector2(0, -2000)
    /\ engine.scroll[2].scrollPosition = Vector2(0, -2000)
    /\ engine.scroll[2].openThisFrame
    /\ last.args[2] = LuaNil

----------------------------------------------------------------------------
(* Element ids *)

\* The labels, indexes and isLocal arguments a script passes.
Labels == {<<97>>, <<98, 99>>}
Indexes == {LuaNil, LuaNumber(0), LuaNumber(1)}
Locals == {LuaNil, LuaBoolean(TRUE)}

\* The topmost open element as the engine holds it.
TopElement(w) ==
    IF w.stack = <<>> THEN NoElementId ELSE w.engine.element[w.stack[Len(w.stack)]]

\* clay.id(label, index, isLocal); keep: the call is the one remembered.
Id(label, index, isLocal, keep) ==
    /\ LET r == l_Clay_Id(World, LuaString(label), index, isLocal)
           call == [NoCall EXCEPT !.op = "Id", !.label = label, !.index = index,
                                  !.isLocal = isLocal, !.parent = OpenElementId(World),
                                  !.ret = r.ret]
       IN /\ Commit(r.w)
          /\ last' = [Before("Id", 0) EXCEPT !.err = r.err, !.ret = r.ret, !.ran = TRUE,
                                             !.args = <<call>>]
          /\ ghost' = [ghost EXCEPT !.ref = IF keep THEN call ELSE @]
    /\ UNCHANGED <<hist, thist, said, reads>>

\* clay.element(label, index, isLocal), or with viaId
\* clay.element(clay.id(label, index, isLocal)).
Element(b, label, index, isLocal, viaId, keep) ==
    /\ Declaring
    /\ builders[b].state = "none"
    /\ \A c \in BuilderIds : c < b => builders[c].state # "none"
    /\ Len(calls) < MaxCalls
    /\ LET t == l_Clay_Id(World, LuaString(label), index, isLocal)
           r == IF viaId
                THEN l_Clay_ElementBuilder_New(t.w, b, t.ret, LuaNil, LuaNil)
                ELSE l_Clay_ElementBuilder_New(World, b, LuaString(label), index, isLocal)
           call == [NoCall EXCEPT !.op = "Element", !.label = label, !.index = index,
                                  !.isLocal = isLocal, !.parent = OpenElementId(World),
                                  !.viaId = viaId, !.eid = TopElement(r.w)]
       IN /\ Commit(r.w)
          /\ hist' = [MarkForeign(b, r.w) EXCEPT ![b] =
                         [NoHist EXCEPT !.id = TopElement(r.w).id, !.elem = nextElem,
                                        !.openAt = Len(calls) + 1,
                                        !.own = Added(r.w),
                                        !.depthBefore = Len(stack)]]
          /\ last' = [Before("Element", b) EXCEPT !.err = r.err, !.ran = TRUE,
                                                  !.args = <<call>>]
          /\ ghost' = [ghost EXCEPT !.ref = IF keep THEN call ELSE @]
    /\ UNCHANGED <<thist, said, reads>>

\* Scripts that ask for ids under the elements they opened.
NextId ==
    \/ BeginLayout
    \/ ShortFrame /\ OpenElement(TallId)
    \/ ShortFrame /\ CloseElement
    \/ \E label \in Labels, index \in Indexes, isLocal \in Locals, keep \in BOOLEAN :
          Id(label, index, isLocal, keep)

SpecId == Init /\ [][NextId]_vars

\* Scripts that declare elements by label, directly and through clay.id.
NextNamed ==
    \/ BeginLayout
    \/ \E id \in ElementIds : ShortFrame /\ OpenElement(id)
    \/ \E b \in BuilderIds, label \in Labels, index \in Indexes, isLocal \in Locals,
          viaId \in BOOLEAN, keep \in BOOLEAN :
          ShortFrame /\ Element(b, label, index, isLocal, viaId, keep)

SpecNamed == Init /\ [][NextNamed]_vars

\* Two calls with the same label, the same index (none is 0) and the same
\* scope: global, or local under the same open parent.
SameArgs(a, c) ==
    /\ a.label = c.label
    /\ luaL_optinteger(a.index, 0) = luaL_optinteger(c.index, 0)
    /\ lua_toboolean(a.isLocal) = lua_toboolean(c.isLocal)
    /\ lua_toboolean(a.isLocal) => a.parent = c.parent

\* C16: clay.id is deterministic: a call returns the id that an earlier call
\* with the same label, the same index and, for isLocal, the same open parent
\* returned, in this frame or in an earlier one; an index of 0 and an index
\* left out give the same id; a global id is the same under every open
\* element.
C16_IdDeterministic ==
    (last.op = "Id" /\ ghost.ref.op = "Id" /\ SameArgs(last.args[1], ghost.ref)) =>
        last.ret.v.id = ghost.ref.ret.v.id

\* A global id asked for without index under no element, then with index 0
\* under an open element, with the same result.
C16_Witness ==
    /\ last.op = "Id" /\ ghost.ref.op = "Id"
    /\ SameArgs(last.args[1], ghost.ref)
    /\ ~lua_toboolean(ghost.ref.isLocal)
    /\ ghost.ref.index = LuaNil /\ last.args[1].index = LuaNumber(0)
    /\ ghost.ref.parent = 0 /\ last.args[1].parent # 0
    /\ last.ret.v.id = ghost.ref.ret.v.id

\* C17: clay.element(name, index, isLocal) opens an element with the same
\* ElementId (numeric id, offset, baseId and label) as
\* clay.element(clay.id(name, index, isLocal)) under the same open parent.
C17_SameElementId ==
    (/\ last.op = "Element" /\ ghost.ref.op = "Element"
     /\ last.args[1].viaId # ghost.ref.viaId
     /\ last.args[1].parent = ghost.ref.parent
     /\ SameArgs(last.args[1], ghost.ref)) =>
        last.args[1].eid = ghost.ref.eid

----------------------------------------------------------------------------
(* Whole frames *)

\* The statements of a frame script: b = clay.element(id),
\* b:backgroundColor(c), b:close(), clay.open(id), clay.close().
FrameSteps == {"element", "bg", "closeSelf", "open", "close"}

\* The scripts: at most one builder each, used after it was made.
FrameScripts ==
    {f \in SeqsUpTo(FrameSteps, MaxScript) :
        /\ Cardinality({i \in 1..Len(f) : f[i] = "element"}) <= 1
        /\ \A i \in 1..Len(f) : f[i] \in {"bg", "closeSelf"} =>
              \E j \in 1..(i - 1) : f[j] = "element"}

FrameStep(w, b, s) ==
    CASE s = "element" ->
            l_Clay_ElementBuilder_New(w, b, clay_push_element_id_table(PlainId(TallId), <<>>),
                                      LuaNil, LuaNil)
      [] s = "closeSelf" -> l_Elem_close(w, b)
      [] s = "open" -> l_Clay_OpenElement(w, FnChildId)
      [] s = "bg" -> l_Elem_backgroundColor(w, b, TRUE)
      [] OTHER -> l_Clay_CloseElement(w)

\* The collector finalizes the builders of earlier frames (every live builder
\* but b, the one of the running script).
RECURSIVE CollectStale(_, _, _)
CollectStale(w, b, c) ==
    IF c \notin BuilderIds THEN w
    ELSE CollectStale(IF c # b /\ w.builders[c].state = "live" THEN l_Elem_gc(w, c).w ELSE w,
                      b, c + 1)

\* The statements from the k-th on, run until one raises; the collector runs
\* before the statement numbered gcAt (after the last one when gcAt is one
\* more than the length, never when 0).
RECURSIVE RunScript(_, _, _, _, _)
RunScript(w, b, f, k, gcAt) ==
    LET w0 == IF gcAt = k THEN CollectStale(w, b, 1) ELSE w
    IN IF k > Len(f) THEN Ok(w0)
       ELSE LET r == FrameStep(w0, b, f[k])
            IN IF r.err THEN r ELSE RunScript(r.w, b, f, k + 1, gcAt)

\* The builder slot of the running script: the lowest unused one (0: none).
FreeBuilder ==
    IF \E b \in BuilderIds : builders[b].state = "none"
    THEN CHOOSE b \in BuilderIds :
            /\ builders[b].state = "none"
            /\ \A c \in BuilderIds : c < b => builders[c].state # "none"
    ELSE 0

\* One frame of the host loop, an uninterrupted unit: clay.beginLayout(), the
\* script, clay.endLayoutIter().  After the first frame the script is the
\* one of the frame before.
Frame(f, gcAt) ==
    /\ ghost.cur.op = "none" \/ f = ghost.cur.script
    /\ (\E i \in 1..Len(f) : f[i] = "element") => FreeBuilder # 0
    /\ LET b == FreeBuilder
           r == RunScript(l_Clay_BeginLayout(World).w, b, f, 1, gcAt)
           e == l_Clay_EndLayoutIter(r.w)
           frame == [op |-> "Frame", script |-> f, culling |-> engine.culling,
                     stale |-> \E c \in BuilderIds : builders[c].active,
                     whole |-> e.w.stack = <<>> /\ ~e.w.underflow,
                     cmds |-> e.w.cmds,
                     tree |-> <<e.w.engine.elemId, e.w.engine.parent, e.w.elemDecl,
                                e.w.underflow>>]
       IN /\ ~r.err
          /\ Commit(e.w)
          /\ last' = [Before("Frame", 0) EXCEPT !.ran = TRUE, !.args = <<f, gcAt>>]
          /\ ghost' = [ghost EXCEPT !.yielded = <<>>, !.prev = ghost.cur, !.cur = frame]
          /\ hist' = [c \in BuilderIds |-> [hist[c] EXCEPT !.foreign = TRUE]]
    /\ UNCHANGED <<thist, said, reads>>

NextFrames ==
    \/ \E enabled \in BOOLEAN : SetCullingEnabled(enabled)
    \/ \E f \in FrameScripts, gcAt \in 0..(MaxScript + 1) :
          gcAt <= Len(f) + 1 /\ Frame(f, gcAt)

SpecFrames == Init /\ [][NextFrames]_vars

\* Two consecutive frames ran the same script with the same inputs, and the
\* first declared a tree.
SameFrames ==
    /\ ghost.cur.op = "Frame" /\ ghost.prev.op = "Frame"
    /\ ghost.cur.script = ghost.prev.script
    /\ ghost.cur.culling = ghost.prev.culling
    /\ ghost.prev.whole

\* C18: the same script, declaring a tree, run in two consecutive frames with
\* the same inputs gives the same element tree (from which the engine
\* resolves the bounding boxes) and the same commands in the same order.
C18_FramesIdentical ==
    SameFrames => (ghost.cur.cmds = ghost.prev.cmds /\ ghost.cur.tree = ghost.prev.tree)

\* The boundary of C18: the two frames do agree when no element builder of
\* an earlier frame is still open as either of them begins.
FramesIdenticalWhenClosed ==
    (SameFrames /\ ~ghost.cur.stale /\ ~ghost.prev.stale) =>
        (ghost.cur.cmds = ghost.prev.cmds /\ ghost.cur.tree = ghost.prev.tree)

----------------------------------------------------------------------------
(* clay.initialize and clay.shutdown *)

\* The addresses malloc can hand out (0 is NULL).
Addresses == 1..MaxBlocks

\* Clay_MinMemorySize: the smallest arena the engine accepts.
MinMemorySize == 2

\* Clay_Initialize: the context is placed at the start of the arena; NULL
\* (0) when the arena cannot hold it, and then nothing of the engine changes.
Clay_Initialize(w, capacity, mem) ==
    IF capacity < MinMemorySize THEN [w |-> w, ctx |-> 0]
    ELSE [w |-> [w EXCEPT !.engine.context = mem], ctx |-> mem]

l_Clay_Initialize_no_free(w, capacity, width, height, mem) ==
    IF mem = 0 THEN Raise(w)
    ELSE LET w1 == [w EXCEPT !.host.heap = @ \cup {mem}]
             c == Clay_Initialize(w1, capacity, mem)
         IN IF c.ctx = 0
            THEN Return(c.w, <<LuaNil, LuaNil>>)
            ELSE Return([c.w EXCEPT !.host.arenaMem = mem, !.host.arenaCap = capacity],
                        <<LuaLight(mem), LuaLight(c.ctx)>>)

\* mem: what malloc(capacity) returned.
l_Clay_Initialize(w, capacity, width, height, mem) ==
    IF mem = 0 THEN Raise(w)
    ELSE LET w1 == [w EXCEPT !.host.heap = @ \cup {mem}]
             c == Clay_Initialize(w1, capacity, mem)
         IN IF c.ctx = 0
            THEN Return([c.w EXCEPT !.host.heap = @ \ {mem}], <<LuaNil, LuaNil>>)
            ELSE Return([c.w EXCEPT !.host.arenaMem = mem, !.host.arenaCap = capacity],
                        <<LuaLight(mem), LuaLight(c.ctx)>>)

l_Clay_Shutdown(w) ==
    IF w.host.arenaMem # 0
    THEN Ok([w EXCEPT !.host.heap = @ \ {w.host.arenaMem},
                      !.host.arenaMem = 0, !.host.arenaCap = 0])
    ELSE Ok(w)

\* args: the capacity asked for, what malloc returned, and the binding's
\* globals, the heap and the engine's context as they were before the call.
Initialize(capacity, width, height, mem) ==
    /\ LET r == l_Clay_Initialize(World, capacity, width, height, mem)
       IN /\ Commit(r.w)
          /\ last' = [Before("Initialize", 0) EXCEPT
                         !.err = r.err, !.ret = r.ret, !.ran = TRUE,
                         !.args = <<capacity, mem, host, engine.context>>]
    /\ UNCHANGED <<ghost, hist, thist, said, reads>>

Shutdown ==
    /\ LET r == l_Clay_Shutdown(World)
       IN /\ Commit(r.w)
          /\ last' = [Before("Shutdown", 0) EXCEPT !.err = r.err, !.ran = TRUE]
    /\ UNCHANGED <<ghost, hist, thist, said, reads>>

\* malloc fails or returns a block that is not in use.
NextInit ==
    \/ \E capacity \in {MinMemorySize - 1, MinMemorySize, MinMemorySize + 1},
          width \in {800}, height \in {600}, mem \in {0} \cup (Addresses \ host.heap) :
          Initialize(capacity, width, height, mem)
    \/ Shutdown

SpecInit == Init /\ [][NextInit]_vars

\* C20: when the engine accepts the arena, clay.initialize returns the arena
\* memory and the context handle, and the arena is recorded and kept; when
\* the engine returns no context, the block just allocated is freed, the
\* recorded arena, the rest of the heap and the engine's context are as
\* before, and the call returns (nil, nil) without raising.
C20_Initialize ==
    (last.op = "Initialize" /\ last.args[2] # 0) =>
        LET capacity == last.args[1]
            mem == last.args[2]
            hostBefore == last.args[3]
        IN /\ ~last.err
           /\ IF capacity >= MinMemorySize
              THEN /\ last.ret = <<LuaLight(mem), LuaLight(engine.context)>>
                   /\ engine.context # 0
                   /\ host.arenaMem = mem /\ host.arenaCap = capacity
                   /\ host.heap = hostBefore.heap \cup {mem}
              ELSE /\ last.ret = <<LuaNil, LuaNil>>
                   /\ host = hostBefore
                   /\ engine.context = last.args[4]

\* The engine refused a second arena while an earlier one was recorded.
C20_Witness ==
    /\ last.op = "Initialize" /\ last.args[2] # 0
    /\ last.ret = <<LuaNil, LuaNil>>
    /\ host.arenaMem # 0 /\ host.arenaMem # last.args[2]
    /\ host.arenaMem \in host.heap
    /\ last.args[2] \notin host.heap

----------------------------------------------------------------------------
(* Text measurement *)

\* Clay_Dimensions
Clay_Dimensions(width, height) == [width |-> width, height |-> height]

\* The measure functions a script registers: 1 returns a width and a height,
\* 2 raises an error, 3 returns no number for the width and a negative height.
MeasureFns == {1, 2, 3}

\* The call of the value fn with the text and the config table, under
\* lua_pcall with two results.
lua_pcall_measure(fn, length, fontSize) ==
    IF fn.t # "function" \/ fn.v = 2
    THEN [err |-> TRUE, results |-> <<>>]
    ELSE IF fn.v = 1
    THEN [err |-> FALSE, results |-> <<LuaNumber(length * 7), LuaNumber(fontSize + 1)>>]
    ELSE [err |-> FALSE, results |-> <<LuaNil, LuaNumber(-4)>>]

\* A result of lua_pcall read as a dimension: 0 when it is no number, 1 when
\* it is not positive.
MeasureResult(x) ==
    LET v == IF x.t = "number" THEN ToFloat(x.v) ELSE 0
    IN IF v <= 0 THEN 1 ELSE v

Bridge_MeasureTextFunction_no_pop(w, length, fontSize) ==
    IF w.host.measureRef = LUA_NOREF
    THEN [dims |-> Clay_Dimensions(ToFloat(length * fontSize), ToFloat(fontSize)),
          top |-> 0, reported |-> FALSE]
    ELSE LET pushed == 3
             c == lua_pcall_measure(lua_rawgeti(w.registry, w.host.measureRef),
                                    length, fontSize)
         IN IF c.err
            THEN [dims |-> Clay_Dimensions(0, 0), top |-> pushed - 3 + 1, reported |-> TRUE]
            ELSE [dims |-> Clay_Dimensions(MeasureResult(c.results[1]),
                                           MeasureResult(c.results[2])),
                  top |-> pushed - 3 + 2 - 1 - 1, reported |-> FALSE]

\* The size of a text of this length at this font size; top: the height of
\* the Lua stack on return, counted from its height on entry (the function,
\* the text and the config table are pushed, lua_pcall replaces them by the
\* error message or by two results); reported: a message went to stderr.
Bridge_MeasureTextFunction(w, length, fontSize) ==
    IF w.host.measureRef = LUA_NOREF
    THEN [dims |-> Clay_Dimensions(ToFloat(length * fontSize), ToFloat(fontSize)),
          top |-> 0, reported |-> FALSE]
    ELSE LET pushed == 3
             c == lua_pcall_measure(lua_rawgeti(w.registry, w.host.measureRef),
                                    length, fontSize)
         IN IF c.err
            THEN [dims |-> Clay_Dimensions(0, 0), top |-> pushed - 3 + 1 - 1, reported |-> TRUE]
            ELSE [dims |-> Clay_Dimensions(MeasureResult(c.results[1]),
                                           MeasureResult(c.results[2])),
                  top |-> pushed - 3 + 2 - 1 - 1, reported |-> FALSE]

l_Clay_SetMeasureTextFunction_leak(w, x) ==
    IF x.t # "function" /\ ~lua_isnil(x) THEN Raise(w)
    ELSE IF x.t = "function"
    THEN Ok([w EXCEPT !.registry = luaL_ref(w.registry, x),
                      !.host.measureRef = luaL_ref_index(w.registry)])
    ELSE Ok([w EXCEPT !.host.measureRef = LUA_NOREF])

l_Clay_SetMeasureTextFunction(w, x) ==
    IF x.t # "function" /\ ~lua_isnil(x) THEN Raise(w)
    ELSE LET reg == IF w.host.measureRef # LUA_NOREF
                    THEN luaL_unref(w.registry, w.host.measureRef)
                    ELSE w.registry
         IN IF x.t = "function"
            THEN Ok([w EXCEPT !.registry = luaL_ref(reg, x),
                              !.host.measureRef = luaL_ref_index(reg)])
            ELSE Ok([w EXCEPT !.registry = reg, !.host.measureRef = LUA_NOREF])

\* clay.setMeasureTextFunction(x)
SetMeasureTextFunction(x) ==
    /\ LET r == l_Clay_SetMeasureTextFunction(World, x)
       IN /\ Commit(r.w)
          /\ last' = [Before("SetMeasureTextFunction", 0) EXCEPT
                         !.err = r.err, !.ran = TRUE, !.arg = x,
                         !.regBefore = registry, !.args = <<host.measureRef>>]
    /\ UNCHANGED <<ghost, hist, thist, said, reads>>

\* The engine measures a text during layout.
MeasureText(length, fontSize) ==
    /\ LET r == Bridge_MeasureTextFunction(World, length, fontSize)
       IN /\ last' = [Before("MeasureText", 0) EXCEPT
                         !.ran = TRUE, !.ret = r, !.args = <<length, fontSize>>]
    /\ UNCHANGED <<stack, calls, nextElem, elemDecl, underflow, registry, builders,
                   texts, cmds, iter, engine, host, ghost, hist, thist, said, reads>>

NextMeasure ==
    \/ \E f \in MeasureFns : SetMeasureTextFunction(LuaFunction(f))
    \/ SetMeasureTextFunction(LuaNil)
    \/ SetMeasureTextFunction(LuaNumber(5))
    \/ \E length \in 0..MaxTextLen, fontSize \in {0, 12, 16, 17} : MeasureText(length, fontSize)

SpecMeasure == Init /\ [][NextMeasure]_vars

\* The registry slots that hold a function.
HeldFunctions == {i \in 1..MaxRef : registry[i].t = "function"}

\* C21: with no measure function set (never set, or cleared), a text is
\* measured as width = length x fontSize and height = fontSize; setting a
\* function registers it and releases the one registered before, clearing
\* releases it, so the registry holds the function set last and no other.
C21_MeasureFallback ==
    /\ (last.op = "MeasureText" /\ host.measureRef = LUA_NOREF) =>
          last.ret.dims = Clay_Dimensions(last.args[1] * last.args[2], last.args[2])
    /\ Cardinality(HeldFunctions) <= 1
    /\ IF host.measureRef = LUA_NOREF THEN HeldFunctions = {}
       ELSE HeldFunctions = {host.measureRef}
    /\ (last.op = "SetMeasureTextFunction" /\ ~last.err) =>
          IF last.arg.t = "function"
          THEN registry[host.measureRef] = last.arg
          ELSE host.measureRef = LUA_NOREF

\* A function had been set and was cleared, and a text of 3 characters at
\* font size 16 is measured as 48 x 16.
C21_Witness ==
    /\ last.op = "MeasureText" /\ host.measureRef = LUA_NOREF
    /\ registry[0] # LuaNil
    /\ last.args = <<3, 16>>
    /\ last.ret.dims = Clay_Dimensions(48, 16)

\* C26: when the measure function raises, the bridge reports the error,
\* returns the size 0 x 0 and leaves the Lua stack at the height it had on
\* entry; nothing is raised into the engine.
C26_MeasureErrorCaught ==
    (/\ last.op = "MeasureText"
     /\ host.measureRef # LUA_NOREF
     /\ lua_pcall_measure(registry[host.measureRef], last.args[1], last.args[2]).err) =>
        /\ ~last.err
        /\ last.ret.reported
        /\ last.ret.dims = Clay_Dimensions(0, 0)
        /\ last.ret.top = 0

\* The raising function is registered and a text was measured.
C26_Witness ==
    /\ last.op = "MeasureText"
    /\ host.measureRef # LUA_NOREF
    /\ registry[host.measureRef] = LuaFunction(2)
    /\ last.ret.reported /\ last.ret.top = 0

----------------------------------------------------------------------------
(* The accessors of a render command that depend on its type *)

\* Clay_RenderCommandType
CommandTypes == {"NONE", "RECTANGLE", "BORDER", "TEXT", "IMAGE",
                 "SCISSOR_START", "SCISSOR_END", "CUSTOM"}

\* n values returned to the script.
LuaValues(n) == [t |-> "values", v |-> n]

l_ClayCmd_Color(w, c) ==
    IF w.cmds[c].commandType \in {"RECTANGLE", "TEXT", "IMAGE", "CUSTOM", "BORDER"}
    THEN Return(w, LuaValues(4))
    ELSE Ok(w)

l_ClayCmd_Text(w, c) ==
    IF w.cmds[c].commandType # "TEXT" THEN Ok(w) ELSE Return(w, LuaValues(5))

l_ClayCmd_CornerRadius(w, c) ==
    IF w.cmds[c].commandType = "RECTANGLE" THEN Return(w, LuaValues(4))
    ELSE IF w.cmds[c].commandType = "BORDER" THEN Return(w, LuaValues(4))
    ELSE IF w.cmds[c].commandType = "IMAGE" THEN Return(w, LuaValues(4))
    ELSE IF w.cmds[c].commandType = "CUSTOM" THEN Return(w, LuaValues(4))
    ELSE Ok(w)

l_ClayCmd_BorderWidth(w, c) ==
    IF w.cmds[c].commandType # "BORDER" THEN Ok(w) ELSE Return(w, LuaValues(4))

l_ClayCmd_Clip_start(w, c) ==
    IF w.cmds[c].commandType # "SCISSOR_START" THEN Ok(w) ELSE Return(w, LuaValues(2))

l_ClayCmd_Clip(w, c) ==
    IF w.cmds[c].commandType # "SCISSOR_START" /\ w.cmds[c].commandType # "SCISSOR_END"
    THEN Ok(w)
    ELSE Return(w, LuaValues(2))

\* The script holds the command the iterator yielded last.
Holding == iter.made /\ iter.index >= 1

AccessBy(op, r) ==
    /\ Commit(r.w)
    /\ last' = [Before(op, 0) EXCEPT
                   !.err = r.err, !.ret = r.ret, !.ran = TRUE, !.cmd = iter.index]
    /\ UNCHANGED <<ghost, hist, thist, said, reads>>

Cmd_color == Holding /\ AccessBy("Cmd_color", l_ClayCmd_Color(World, iter.index))
Cmd_text == Holding /\ AccessBy("Cmd_text", l_ClayCmd_Text(World, iter.index))
Cmd_cornerRadius ==
    Holding /\ AccessBy("Cmd_cornerRadius", l_ClayCmd_CornerRadius(World, iter.index))
Cmd_borderWidth ==
    Holding /\ AccessBy("Cmd_borderWidth", l_ClayCmd_BorderWidth(World, iter.index))
Cmd_clip == Holding /\ AccessBy("Cmd_clip", l_ClayCmd_Clip(World, iter.index))

\* The command arrays a layout pass hands to the iterator: two commands of
\* any type, an image command carrying a plain pointer.
CommandArrays ==
    {<<RenderCommand(a, 1, [DefaultDecl EXCEPT !.imageData = 4]),
       RenderCommand(b, 2, DefaultDecl)>> : a \in CommandTypes, b \in CommandTypes}

\* The state after clay.endLayoutIter() of a frame.
InitAccess ==
    /\ stack = <<>>
    /\ calls = <<>>
    /\ nextElem = 1
    /\ elemDecl = <<>>
    /\ underflow = FALSE
    /\ registry = EmptyRegistry
    /\ builders = [b \in BuilderIds |-> NoBuilder]
    /\ texts = [t \in TextIds |-> NoText]
    /\ cmds \in CommandArrays
    /\ iter = [made |-> TRUE, index |-> 0]
    /\ engine = NoEngine
    /\ host = NoHost
    /\ ghost = NoGhost
    /\ hist = [b \in BuilderIds |-> NoHist]
    /\ thist = [t \in TextIds |-> NoTextHist]
    /\ said = [e \in ElemNumbers |-> NoSaid]
    /\ reads = NoReads
    /\ last = NoLast

NextAccess ==
    \/ IterNext
    \/ Cmd_color
    \/ Cmd_text
    \/ Cmd_cornerRadius
    \/ Cmd_borderWidth
    \/ Cmd_imageData
    \/ Cmd_clip

SpecAccess == InitAccess /\ [][NextAccess]_vars

\* The command types an accessor is documented to apply to.
DocumentedTypes(op) ==
    CASE op = "Cmd_color" -> {"RECTANGLE", "TEXT", "IMAGE"}
      [] op = "Cmd_text" -> {"TEXT"}
      [] op = "Cmd_cornerRadius" -> {"RECTANGLE"}
      [] op = "Cmd_borderWidth" -> {"BORDER"}
      [] op = "Cmd_imageData" -> {"IMAGE"}
      [] op = "Cmd_clip" -> {"SCISSOR_START", "SCISSOR_END"}

\* The command types an accessor returns values for.
AppliedTypes(op) ==
    CASE op = "Cmd_color" -> {"RECTANGLE", "TEXT", "IMAGE", "CUSTOM", "BORDER"}
      [] op = "Cmd_cornerRadius" -> {"RECTANGLE", "BORDER", "IMAGE", "CUSTOM"}
      [] OTHER -> DocumentedTypes(op)

TypedAccessors == {"Cmd_color", "Cmd_text", "Cmd_cornerRadius", "Cmd_borderWidth",
                   "Cmd_imageData", "Cmd_clip"}

----------------------------------------------------------------------------
(* The sizing setters of the element builder *)

Elem_width(b, t, args) ==
    /\ Declaring
    /\ builders[b].state = "live"
    /\ LET r == l_Elem_width(World, b, t, args)
       IN /\ Commit(r.w)
          /\ last' = [Before("Elem_width", b) EXCEPT
                         !.err = r.err, !.ran = ~r.err, !.arg = t, !.args = args]
    /\ UNCHANGED <<ghost, hist, thist, said, reads>>

Elem_height(b, t, args) ==
    /\ Declaring
    /\ builders[b].state = "live"
    /\ LET r == l_Elem_height(World, b, t, args)
       IN /\ Commit(r.w)
          /\ last' = [Before("Elem_height", b) EXCEPT
                         !.err = r.err, !.ran = ~r.err, !.arg = t, !.args = args]
    /\ UNCHANGED <<ghost, hist, thist, said, reads>>

\* The sizing types and sizes a script passes: a size a float holds and one
\* it rounds, and nil where a number is expected.
SizingTypes == {CLAY__SIZING_TYPE_FIT, CLAY__SIZING_TYPE_GROW,
                CLAY__SIZING_TYPE_PERCENT, CLAY__SIZING_TYPE_FIXED}
SizingArgs ==
    {<<>>, <<LuaNil>>, <<LuaNumber(16777217)>>, <<LuaNumber(16777217), LuaNumber(5)>>,
     <<LuaNumber(5), LuaNil>>, <<LuaNumber(5), LuaNumber(5), LuaNumber(5)>>}

HeightArgs == {<<>>, <<LuaNumber(16777217)>>}

NextSizing ==
    \/ ElementBuilder_New(1, FnChildId)
    \/ \E t \in SizingTypes, args \in SizingArgs : Elem_width(1, LuaNumber(t), args)
    \/ \E t \in {CLAY__SIZING_TYPE_PERCENT, CLAY__SIZING_TYPE_FIXED}, args \in HeightArgs :
          Elem_height(1, LuaNumber(t), args)
    \/ Elem_width(1, LuaNil, <<LuaNumber(5)>>)
    \/ Elem_close(1)

SpecSizing == Init /\ [][NextSizing]_vars

\* The axis the last call was about, before it and after it.
AxisBefore == IF last.op = "Elem_width" THEN last.declBefore.sizing.width
              ELSE last.declBefore.sizing.height
AxisAfter == IF last.op = "Elem_width" THEN builders[last.b].decl.sizing.width
             ELSE builders[last.b].decl.sizing.height
OtherAxisKept ==
    IF last.op = "Elem_width"
    THEN builders[last.b].decl.sizing.height = last.declBefore.sizing.height
    ELSE builders[last.b].decl.sizing.width = last.declBefore.sizing.width

\* C23: on an open builder, :width(type, ...) and :height(type, ...) with
\* numbers as arguments: FIXED with one argument sets min = max = size;
\* PERCENT with one argument sets percent; GROW and FIT set min = max = 0
\* with no argument, min and max = 0 with one, min and max with two; every
\* other argument count raises an error.  Sizes are stored as floats, and
\* the other axis is left alone.
C23_SizingArguments ==
    (/\ last.op \in {"Elem_width", "Elem_height"}
     /\ last.wasActive
     /\ lua_isnumber(last.arg)
     /\ \A i \in 1..Len(last.args) : lua_isnumber(last.args[i])) =>
        LET n == Len(last.args)
            type == last.arg.v
            size(i) == ToFloat(last.args[i].v)
        IN /\ OtherAxisKept
           /\ AxisAfter.type = type
           /\ IF type = CLAY__SIZING_TYPE_FIXED
              THEN IF n = 1
                   THEN ~last.err /\ AxisAfter.size = [min |-> size(1), max |-> size(1)]
                   ELSE last.err
              ELSE IF type = CLAY__SIZING_TYPE_PERCENT
              THEN IF n = 1
                   THEN ~last.err /\ SizePercent(AxisAfter) = size(1)
                   ELSE last.err
              ELSE IF n = 0
              THEN ~last.err /\ AxisAfter.size = [min |-> 0, max |-> 0]
              ELSE IF n = 1
              THEN ~last.err /\ AxisAfter.size = [min |-> size(1), max |-> 0]
              ELSE IF n = 2
              THEN ~last.err /\ AxisAfter.size = [min |-> size(1), max |-> size(2)]
              ELSE last.err

\* :width(GROW, 16777217) on an axis whose max an earlier call had set.
C23_Witness ==
    /\ last.op = "Elem_width"
    /\ last.arg = LuaNumber(CLAY__SIZING_TYPE_GROW)
    /\ last.args = <<LuaNumber(16777217)>>
    /\ AxisBefore.size.max # 0
    /\ AxisAfter.size = [min |-> 16777216, max |-> 0]

----------------------------------------------------------------------------
(* Closing a builder more than once *)

\* Children functions that never call clay.close() themselves: every close
\* call a builder's handlers add is then made by the builder's own code.
SelfSteps == {"open", "text", "closeSelf", "error"}
SelfFns == SeqsUpTo(SelfSteps, MaxFnLen)

NextClose ==
    \/ \E b \in BuilderIds, id \in ElementIds : ElementBuilder_New(b, id)
    \/ \E b \in BuilderIds : Elem_close(b)
    \/ \E b \in BuilderIds, fn \in SelfFns : Elem_children(b, fn)
    \/ \E b \in BuilderIds : Elem_gc(b)
    \/ OpenElement(FnChildId)

SpecClose == Init /\ [][NextClose]_vars

\* The close-element calls made on behalf of builder b.
ClosesFor(b) == Cardinality({i \in 1..Len(hist[b].own) : hist[b].own[i].op = "close"})

\* C24: whatever sequence of :close(), :children(fn) and finalization runs
\* on a builder, also with fn closing the builder itself, the engine's
\* close-element is called at most once for that builder, and exactly once
\* when the builder has been closed.
C24_ClosedAtMostOnce ==
    \A b \in BuilderIds :
        /\ ClosesFor(b) <= 1
        /\ (builders[b].state # "none" /\ ~builders[b].active) => ClosesFor(b) = 1

----------------------------------------------------------------------------
(* The Lua stack across the table reader *)

\* C25: reading a config table leaves the Lua stack at the height it had
\* before, whatever the table holds, so clay.createElement(id, config,
\* childrenFn) still finds childrenFn as argument 3 and runs it once between
\* the configure and the close.
C25_ReaderKeepsStackHeight ==
    (last.op = "CreateElement" /\ lua_istable(last.arg)) =>
        /\ clay_read_element_declaration(World, last.arg).top = 0
        /\ last.nargs = 3 =>
              SubSeq(calls, last.nCalls + 1, Len(calls)) =
                  SubSeq(last.shadow.calls, last.nCalls + 1, Len(last.shadow.calls))

====
